---- MODULE Spec2Model ----
\* Model of the UniFi SSH presence engine (unifi_ssh_presence.py): the poll loop
\* of main(), the cross-source merger, the per-device presence state machine,
\* and the learning store of unknown devices with its persistence file.
EXTENDS Integers, Sequences, FiniteSets, TLC

\* ---------------------------------------------------------------------------
\* Bounds of the model
\* ---------------------------------------------------------------------------
MaxCycles == 6
MaxAwayAfter == 3
\* cycles of a run at a site where unknown devices are around
MaxLearnCycles == 2
\* largest learn_max_entries and largest timestamp given to trim_seen alone
MaxTrim == 3
MaxTrimTs == 2
\* cycles of a run at the site whose APs fail
MaxFailCycles == 3
\* lines of an output handed to the association-table parser
MaxLines == 3
\* cycles of a run that follows the caches: past the refresh of cycle 41
MaxCacheCycles == 42

\* ---------------------------------------------------------------------------
\* Python values.  An Optional is a set: {} is None, {v} is the value v.
\* A dict is a function from its keys to Optionals (a key can be absent, or
\* present with the value None, as in the away attributes).
\* ---------------------------------------------------------------------------
None == {}
Some(v) == {v}
Val(o) == CHOOSE v \in o : TRUE
\* d.get(k)
Get(d, k) == IF k \in DOMAIN d THEN d[k] ELSE None
\* d[k] = v
Put(d, k, v) == [x \in (DOMAIN d) \cup {k} |-> IF x = k THEN v ELSE d[x]]
\* truth value of an Optional[str]: None and "" are false
Truthy(o) == o # None /\ Val(o) # ""
EmptyDict == [x \in {} |-> None]

\* s.startswith(p) on strings held as sequences of characters
StartsWith(s, p) == Len(s) >= Len(p) /\ SubSeq(s, 1, Len(p)) = p

\* ---------------------------------------------------------------------------
\* MAC addresses.  A MAC is modelled by the value of its first octet; the
\* other five octets are fixed, so two MACs differ iff their first octets do.
\* ---------------------------------------------------------------------------
MacPhone == 16
MacTablet == 18
\* 0x16: locally administered, configured with allow_randomized
MacWatch == 22
\* 0x11: a multicast address somebody configured as a tracked device
MacBogus == 17
\* devices nobody configured: three universally administered unicast MACs,
\* one locally administered, one multicast, and the broadcast address
MacGuestA == 32
MacGuestB == 36
MacGuestC == 40
MacGuestRandom == 34
MacMulticast == 33
MacBroadcast == 255

\* no MAC counts as locally administered
is_randomized_mac_never(mac) == FALSE

is_randomized_mac(mac) == ((mac \div 2) % 2) = 1

\* only the broadcast address is filtered
is_multicast_or_broadcast_ff_only(mac) == mac = 255

is_multicast_or_broadcast(mac) == mac = 255 \/ (mac % 2) = 1

\* ---------------------------------------------------------------------------
\* Configuration
\* ---------------------------------------------------------------------------
devices ==
    << [mac |-> MacPhone, name |-> "phone", allow_randomized |-> FALSE],
       [mac |-> MacTablet, name |-> "tablet", allow_randomized |-> FALSE],
       [mac |-> MacWatch, name |-> "watch", allow_randomized |-> TRUE],
       [mac |-> MacBogus, name |-> "bogus", allow_randomized |-> FALSE] >>

TrackedMacs == {devices[i].mac : i \in DOMAIN devices}

device_by_mac ==
    [m \in TrackedMacs |-> devices[CHOOSE i \in DOMAIN devices : devices[i].mac = m]]

\* poll_interval_sec: the loop sleeps this long after every cycle, and the
\* model's clock advances by it once per cycle.
poll_interval == 1

AP(name, host, floor) == [name |-> name, host |-> host, floor |-> floor]

\* The AP lists the model is run with: two APs on one floor, two APs on two
\* floors, and two APs sharing one name with different floor fields.
APConfigs ==
    { << AP("ap_a", "h1", "a"), AP("ap_b", "h2", "a") >>,
      << AP("ap_a", "h1", "a"), AP("ap_b", "h2", "b") >>,
      << AP("ap_a", "h1", "a"), AP("ap_a", "h2", "f2") >> }

WIFI0AP0 == << "w", "i", "f", "i", "0", "a", "p", "0" >>
WIFI1AP0 == << "w", "i", "f", "i", "1", "a", "p", "0" >>

band_from_iface(iface) ==
    IF StartsWith(iface, << "w", "i", "f", "i", "0" >>) THEN "2.4"
    ELSE IF StartsWith(iface, << "w", "i", "f", "i", "1" >>) THEN "5"
    ELSE IF StartsWith(iface, << "v", "w", "i", "r", "e" >>) THEN "vwire"
    ELSE "?"

\* datetime.fromtimestamp(ts).isoformat(): a string determined by ts
Iso(ts) == "T" \o ToString(ts)

\* ---------------------------------------------------------------------------
\* Cross-source merger
\* ---------------------------------------------------------------------------
\* the second argument wins a full tie
best_record_tie_b(a, b) ==
    LET ar == Get(a, "rssi")
        br == Get(b, "rssi")
        ai == Get(a, "idle_s")
        bi == Get(b, "idle_s")
    IN  IF ar = None /\ br # None THEN b
        ELSE IF br = None /\ ar # None THEN a
        ELSE IF ar # None /\ br # None /\ ar # br
            THEN (IF Val(ar) >= Val(br) THEN a ELSE b)
        ELSE IF ai = None /\ bi # None THEN b
        ELSE IF bi = None /\ ai # None THEN a
        ELSE IF ai # None /\ bi # None /\ ai # bi
            THEN (IF Val(ai) <= Val(bi) THEN a ELSE b)
        ELSE b

best_record(a, b) ==
    LET ar == Get(a, "rssi")
        br == Get(b, "rssi")
        ai == Get(a, "idle_s")
        bi == Get(b, "idle_s")
    IN  IF ar = None /\ br # None THEN b
        ELSE IF br = None /\ ar # None THEN a
        ELSE IF ar # None /\ br # None /\ ar # br
            THEN (IF Val(ar) >= Val(br) THEN a ELSE b)
        ELSE IF ai = None /\ bi # None THEN b
        ELSE IF bi = None /\ ai # None THEN a
        ELSE IF ai # None /\ bi # None /\ ai # bi
            THEN (IF Val(ai) <= Val(bi) THEN a ELSE b)
        ELSE a

\* ---------------------------------------------------------------------------
\* What one AP answers in one cycle.  ifaces is what get_wifi_ifaces would
\* return if it were called (the list, or an exception: the function raises
\* on rc # 0), ssids what the SSID source would answer.  status tells how the
\* AP's single ssh call and the processing of its output end: "ok" (rc = 0,
\* nothing raised), "rc_fail" (ssh_run returned rc # 0), "timeout" (sh() killed
\* the command and returned rc = 124) or "exception" (something raised between
\* the call and the end of the per-interface loop).  rows is the association
\* table of the AP in iteration order: one entry per (interface, MAC) with the
\* record parse_wlanconfig_list(extended = True) builds for it.  neigh is the
\* MAC -> IPv4 map parsed from the neighbour table.
\* ---------------------------------------------------------------------------
Row(iface, mac, rssi) ==
    [iface |-> iface, mac |-> mac,
     rec |-> IF rssi = None THEN [mac |-> Some(mac)]
             ELSE [mac |-> Some(mac), rssi |-> rssi]]

BothIfaces == << WIFI0AP0, WIFI1AP0 >>

IfacesOk(list) == [kind |-> "ok", list |-> list]
IfacesRaise == [kind |-> "raise", list |-> << >>]

\* get_hostapd_ssid_map: the parsed map, {} on rc # 0, or an exception out
\* of ssh_run
SsidsOk(map) == [kind |-> "ok", map |-> map]
SsidsRcFail == [kind |-> "rc_fail", map |-> EmptyDict]
SsidsRaise == [kind |-> "raise", map |-> EmptyDict]

\* an AP whose interface detection answers both interfaces
Answer(status, rows, neigh) ==
    [status |-> status, rows |-> rows, neigh |-> neigh,
     ifaces |-> IfacesOk(BothIfaces), ssids |-> SsidsRcFail]

StationTables ==
    { << Row(WIFI0AP0, MacPhone, Some(30)), Row(WIFI1AP0, MacTablet, Some(40)) >>,
      << Row(WIFI0AP0, MacTablet, Some(40)), Row(WIFI1AP0, MacPhone, Some(40)) >>,
      << Row(WIFI0AP0, MacTablet, Some(40)), Row(WIFI1AP0, MacPhone, None) >> }

NeighTables ==
    { EmptyDict, (MacPhone :> "10.0.0.5"), (MacPhone :> "10.0.0.6") }

\* A site where devices nobody configured are around: guests, a multicast and
\* the broadcast address in the association table, and the four configured
\* devices' MACs.
MixedStationTables ==
    { << Row(WIFI0AP0, MacGuestA, Some(30)),
         Row(WIFI0AP0, MacMulticast, Some(50)),
         Row(WIFI0AP0, MacBogus, Some(50)),
         Row(WIFI1AP0, MacTablet, Some(45)) >>,
      << Row(WIFI0AP0, MacGuestB, Some(35)),
         Row(WIFI0AP0, MacGuestA, Some(40)),
         Row(WIFI1AP0, MacGuestRandom, Some(40)),
         Row(WIFI1AP0, MacWatch, Some(40)),
         Row(WIFI1AP0, MacBroadcast, None) >>,
      << Row(WIFI0AP0, MacGuestC, None),
         Row(WIFI1AP0, MacGuestA, Some(30)) >> }

MixedNeighTables ==
    { EmptyDict, (MacGuestA :> "10.0.0.9") }

PollOutcomes ==
    { Answer("rc_fail", << >>, EmptyDict),
      Answer("exception", << >>, EmptyDict),
      Answer("ok", << >>, EmptyDict) }
    \cup { Answer("ok", r, n) : r \in StationTables, n \in NeighTables }

MixedPollOutcomes ==
    { Answer("rc_fail", << >>, EmptyDict),
      Answer("ok", << >>, EmptyDict) }
    \cup { Answer("ok", r, n) : r \in MixedStationTables, n \in MixedNeighTables }

\* ---------------------------------------------------------------------------
\* Text.  An SSID is held as the sequence of its characters, so that lower()
\* and the substring test of the confidence score are computed on it.
\* ---------------------------------------------------------------------------
UpperLetters ==
    << "A", "B", "C", "D", "E", "F", "G", "H", "I", "J", "K", "L", "M",
       "N", "O", "P", "Q", "R", "S", "T", "U", "V", "W", "X", "Y", "Z" >>

LowerLetters ==
    << "a", "b", "c", "d", "e", "f", "g", "h", "i", "j", "k", "l", "m",
       "n", "o", "p", "q", "r", "s", "t", "u", "v", "w", "x", "y", "z" >>

LowerChar(c) ==
    IF \E i \in DOMAIN UpperLetters : UpperLetters[i] = c
    THEN LowerLetters[CHOOSE i \in DOMAIN UpperLetters : UpperLetters[i] = c]
    ELSE c

\* str.lower()
LowerText(s) == [i \in DOMAIN s |-> LowerChar(s[i])]

\* sub in s
Contains(s, sub) ==
    \E i \in 0..(Len(s) - Len(sub)) : SubSeq(s, i + 1, i + Len(sub)) = sub

\* str.strip(), for the blank as the only whitespace
RECURSIVE lstrip(_)
lstrip(s) == IF s # << >> /\ Head(s) = " " THEN lstrip(Tail(s)) ELSE s

RECURSIVE rstrip(_)
rstrip(s) ==
    IF s # << >> /\ s[Len(s)] = " " THEN rstrip(SubSeq(s, 1, Len(s) - 1)) ELSE s

strip(s) == rstrip(lstrip(s))

\* (x or ""), for an Optional text
OrEmpty(o) == IF o = None THEN << >> ELSE Val(o)

\* ---------------------------------------------------------------------------
\* parse_wlanconfig_list(output, extended = False), on the text itself.  The
\* output is a sequence of lines and a line the sequence of its tokens, which
\* is what ln.strip() and re.split(r"\s+", ln) make of it; a blank line has no
\* token.  A token is a sequence of characters.
\* ---------------------------------------------------------------------------
UpperChar(c) ==
    IF \E i \in DOMAIN LowerLetters : LowerLetters[i] = c
    THEN UpperLetters[CHOOSE i \in DOMAIN LowerLetters : LowerLetters[i] = c]
    ELSE c

\* str.upper()
UpperText(s) == [i \in DOMAIN s |-> UpperChar(s[i])]

Digits == << "0", "1", "2", "3", "4", "5", "6", "7", "8", "9" >>
IsDigit(c) == \E i \in DOMAIN Digits : Digits[i] = c
DigitValue(c) == (CHOOSE i \in DOMAIN Digits : Digits[i] = c) - 1
HexLetters == { "a", "b", "c", "d", "e", "f" }

\* MAC_RE.match(tok): six pairs of hexadecimal digits with colons between
MAC_RE_text(tok) ==
    /\ Len(tok) = 17
    /\ \A i \in 1..17 :
          IF i % 3 = 0 THEN tok[i] = ":"
          ELSE IsDigit(tok[i]) \/ LowerChar(tok[i]) \in HexLetters

\* int() of the digits of s from position i on, after the value acc
RECURSIVE digits_value(_, _, _)
digits_value(s, i, acc) ==
    IF i > Len(s) \/ ~IsDigit(s[i]) THEN acc
    ELSE digits_value(s, i + 1, 10 * acc + DigitValue(s[i]))

\* parse_int_field: re.search(r"-?\d+", raw), None when raw is None or has no
\* digit
parse_int_field(raw) ==
    IF raw = None \/ ~\E i \in DOMAIN Val(raw) : IsDigit(Val(raw)[i]) THEN None
    ELSE LET t == Val(raw)
             i == CHOOSE k \in DOMAIN t :
                    IsDigit(t[k]) /\ \A j \in 1..(k - 1) : ~IsDigit(t[j])
             v == digits_value(t, i, 0)
         IN  Some(IF i > 1 /\ t[i - 1] = "-" THEN 0 - v ELSE v)

\* col_index: the upper-cased header token -> its index, counted from 0; of
\* two columns of one name the later one is kept
RECURSIVE col_index_of(_, _, _)
col_index_of(header, idx, acc) ==
    IF idx >= Len(header) THEN acc
    ELSE col_index_of(header, idx + 1, Put(acc, UpperText(header[idx + 1]), idx))

get_col(parts, col_index, name) ==
    IF name \in DOMAIN col_index /\ col_index[name] < Len(parts)
    THEN Some(parts[col_index[name] + 1]) ELSE None

\* ln.upper().startswith("ADDR"), ln being a line with a token
header_line(ln) == StartsWith(UpperText(ln[1]), << "A", "D", "D", "R" >>)

\* the index of the header among the lines, None when there is none
header_idx_of(lines) ==
    IF \E i \in DOMAIN lines : header_line(lines[i])
    THEN Some(CHOOSE i \in DOMAIN lines :
                header_line(lines[i]) /\ \A j \in 1..(i - 1) : ~header_line(lines[j]))
    ELSE None

wlan_rec(parts, col_index) ==
    LET rec == [mac |-> Some(LowerText(parts[1]))]
        rssi == parse_int_field(get_col(parts, col_index, << "R", "S", "S", "I" >>))
    IN  IF rssi # None THEN Put(rec, "rssi", rssi) ELSE rec

\* the first row with a malformed address ends the table
RECURSIVE parse_rows_until_malformed(_, _, _)
parse_rows_until_malformed(rows, col_index, results) ==
    IF rows = << >> \/ ~MAC_RE_text(LowerText(Head(rows)[1])) THEN results
    ELSE parse_rows_until_malformed(Tail(rows), col_index,
                                    Put(results, LowerText(Head(rows)[1]),
                                        wlan_rec(Head(rows), col_index)))

\* the "for ln in lines[header_idx + 1:]" loop
RECURSIVE parse_rows(_, _, _)
parse_rows(rows, col_index, results) ==
    IF rows = << >> THEN results
    ELSE parse_rows(Tail(rows), col_index,
                    IF MAC_RE_text(LowerText(Head(rows)[1]))
                    THEN Put(results, LowerText(Head(rows)[1]),
                             wlan_rec(Head(rows), col_index))
                    ELSE results)

parse_wlanconfig_list(output) ==
    LET lines == SelectSeq(output, LAMBDA ln : ln # << >>)
        header_idx == header_idx_of(lines)
    IN  IF lines = << >> THEN EmptyDict
        ELSE IF header_idx = None \/ Val(header_idx) = Len(lines) THEN EmptyDict
        ELSE parse_rows(SubSeq(lines, Val(header_idx) + 1, Len(lines)),
                        col_index_of(lines[Val(header_idx)], 0, EmptyDict),
                        EmptyDict)

\* ---------------------------------------------------------------------------
\* Floor labels: floor_from_ap_name, and the part of main() that reads
\* floor_overrides and aps from the options.  Names and floors are texts.
\* ---------------------------------------------------------------------------
UnknownFloor == << "u", "n", "k", "n", "o", "w", "n" >>

\* re.match(r"(?i)^ap_(.+)$", n): the group, << >> when there is no match
ap_suffix(n) ==
    IF Len(n) > 3 /\ LowerText(SubSeq(n, 1, 3)) = << "a", "p", "_" >>
    THEN SubSeq(n, 4, Len(n)) ELSE << >>

floor_from_ap_name(name) ==
    LET n == strip(name)
    IN  IF n = << >> THEN UnknownFloor
        ELSE IF strip(ap_suffix(n)) # << >> THEN strip(ap_suffix(n))
        ELSE n

\* floor_override_by_ap: a dict from AP name to floor, a later entry of the
\* list replacing an earlier one for the same name
RECURSIVE floor_overrides(_, _)
floor_overrides(raw, acc) ==
    IF raw = << >> THEN acc
    ELSE LET ap_name == strip(OrEmpty(Get(Head(raw), "ap_name")))
             floor_val == strip(OrEmpty(Get(Head(raw), "floor")))
         IN  floor_overrides(Tail(raw),
                             IF ap_name # << >> /\ floor_val # << >>
                             THEN Put(acc, ap_name, floor_val) ELSE acc)

\* the floor field of the AP wins over the override
ap_floor_field_first(name, floor_field, floor_override_by_ap) ==
    IF strip(OrEmpty(floor_field)) # << >> THEN strip(OrEmpty(floor_field))
    ELSE IF name \in DOMAIN floor_override_by_ap THEN floor_override_by_ap[name]
    ELSE floor_from_ap_name(name)

\* "floor_override_by_ap.get(name) or (a.get("floor") or "").strip() or
\* floor_from_ap_name(name)"
ap_floor(name, floor_field, floor_override_by_ap) ==
    IF name \in DOMAIN floor_override_by_ap THEN floor_override_by_ap[name]
    ELSE IF strip(OrEmpty(floor_field)) # << >> THEN strip(OrEmpty(floor_field))
    ELSE floor_from_ap_name(name)

\* the "for a in aps_raw" loop: an entry without name or host is skipped
RECURSIVE load_aps(_, _, _)
load_aps(aps_raw, floor_override_by_ap, acc) ==
    IF aps_raw = << >> THEN acc
    ELSE LET a == Head(aps_raw)
             name == strip(OrEmpty(Get(a, "name")))
             host == strip(OrEmpty(Get(a, "host")))
         IN  load_aps(Tail(aps_raw), floor_override_by_ap,
                      IF name # << >> /\ host # << >>
                      THEN Append(acc, [name |-> name, host |-> host,
                                        floor |-> ap_floor(name, Get(a, "floor"),
                                                           floor_override_by_ap)])
                      ELSE acc)

\* ---------------------------------------------------------------------------
\* presence_confidence_for_record.  The fields of a record are Optionals of
\* integers (rssi, idle_s, tx_mbps, rx_mbps) and of text (ssid).
\* ---------------------------------------------------------------------------
NoisySsidWords ==
    { << "c", "a", "m" >>, << "i", "o", "t" >>, << "g", "u", "e", "s", "t" >> }

clamp(score) == IF score < 0 THEN 0 ELSE IF score > 100 THEN 100 ELSE score

\* a weak signal scores more than a fair one
rssi_score_weak_high(rssi) ==
    IF rssi = None THEN 0
    ELSE IF Val(rssi) >= 45 THEN 45
    ELSE IF Val(rssi) >= 35 THEN 30
    ELSE IF Val(rssi) >= 25 THEN 15
    ELSE 20

rssi_score(rssi) ==
    IF rssi = None THEN 0
    ELSE IF Val(rssi) >= 45 THEN 45
    ELSE IF Val(rssi) >= 35 THEN 30
    ELSE IF Val(rssi) >= 25 THEN 15
    ELSE 5

idle_score(idle_s) ==
    IF idle_s = None THEN 0
    ELSE IF Val(idle_s) <= 60 THEN 30
    ELSE IF Val(idle_s) <= 300 THEN 15
    ELSE 0

rate_score(tx_mbps, rx_mbps) ==
    LET rates == tx_mbps \cup rx_mbps
    IN  IF rates = {} THEN 0
        ELSE IF \E v \in rates : v >= 50 THEN 20
        ELSE 10

ssid_score(ssid) ==
    IF ssid # None /\ Val(ssid) # << >>
       /\ \E x \in NoisySsidWords : Contains(LowerText(Val(ssid)), x)
    THEN -5 ELSE 0

presence_confidence_for_record(rec) ==
    clamp(rssi_score(Get(rec, "rssi")) + idle_score(Get(rec, "idle_s"))
          + rate_score(Get(rec, "tx_mbps"), Get(rec, "rx_mbps"))
          + ssid_score(Get(rec, "ssid")))

\* ---------------------------------------------------------------------------
\* One AP's pass of the poll loop: the normalised record of a row, and the
\* per-AP maps seen_ap_tracked / seen_ap_unknown.  A map of sightings is a
\* function; keys is the order in which the unknown map got its keys, which is
\* the order a Python dict iterates in, and sighted is the set of all MACs in
\* the rows, filtered or not.
\* ---------------------------------------------------------------------------
rec2_of(ap, row, mac_to_ip) ==
    LET base == [mac |-> Some(row.mac), ap_name |-> Some(ap.name),
                 ap_host |-> Some(ap.host), floor |-> Some(ap.floor),
                 iface |-> Some(row.iface),
                 band |-> Some(band_from_iface(row.iface))]
        r1 == IF "rssi" \in DOMAIN row.rec
              THEN Put(base, "rssi", row.rec["rssi"]) ELSE base
    IN  IF row.mac \in DOMAIN mac_to_ip
        THEN Put(r1, "ip", Some(mac_to_ip[row.mac])) ELSE r1

ExtendedKeys ==
    << "chan", "tx_rate_raw", "rx_rate_raw", "tx_mbps", "rx_mbps", "min_rssi",
       "max_rssi", "idle_s", "mode", "psmode", "assoctime" >>

RECURSIVE copy_keys(_, _, _)
copy_keys(keys, rec, rec2) ==
    IF keys = << >> THEN rec2
    ELSE copy_keys(Tail(keys), rec,
                   IF Head(keys) \in DOMAIN rec
                   THEN Put(rec2, Head(keys), rec[Head(keys)]) ELSE rec2)

\* NotExtended, or the interface -> SSID map of the AP in extended mode
NotExtended == None
Extended(ssid_by_iface) == Some(ssid_by_iface)

\* the "if extended_mode:" block of the per-row loop
rec2_extended(rec2, row, ssid_by_iface) ==
    LET r1 == Put(rec2, "vap_if", Some(row.iface))
        r2 == IF row.iface \in DOMAIN ssid_by_iface
                 /\ ssid_by_iface[row.iface] # << >>
              THEN Put(r1, "ssid", Some(ssid_by_iface[row.iface])) ELSE r1
        r3 == copy_keys(ExtendedKeys, row.rec, r2)
    IN  Put(r3, "presence_confidence", Some(presence_confidence_for_record(r3)))

RECURSIVE seen_ap(_, _, _, _, _, _)
seen_ap(ap, rows, mac_to_ip, learn, ext, acc) ==
    IF rows = << >> THEN acc
    ELSE
        LET row == Head(rows)
            mac == row.mac
            rec2 == IF ext = NotExtended THEN rec2_of(ap, row, mac_to_ip)
                    ELSE rec2_extended(rec2_of(ap, row, mac_to_ip), row, Val(ext))
            next ==
                IF is_multicast_or_broadcast(mac) THEN acc
                ELSE IF mac \in DOMAIN device_by_mac
                THEN IF is_randomized_mac(mac) /\ ~device_by_mac[mac].allow_randomized
                     THEN acc
                     ELSE [acc EXCEPT !.tracked =
                             Put(@, mac, best_record(
                                 IF mac \in DOMAIN @ THEN @[mac] ELSE rec2, rec2))]
                ELSE IF learn /\ ~is_randomized_mac(mac)
                THEN [acc EXCEPT !.unknown =
                        Put(@, mac, best_record(
                            IF mac \in DOMAIN @ THEN @[mac] ELSE rec2, rec2)),
                                 !.keys =
                        IF mac \in DOMAIN acc.unknown THEN @ ELSE Append(@, mac)]
                ELSE acc
        IN  seen_ap(ap, Tail(rows), mac_to_ip, learn, ext,
                    [next EXCEPT !.sighted = @ \cup {mac}])

\* of two records that tie, the one of the later AP is kept
merge_global_later_wins(g, s) ==
    [m \in (DOMAIN g) \cup (DOMAIN s) |->
        IF m \in DOMAIN s
        THEN best_record(s[m], IF m \in DOMAIN g THEN g[m] ELSE s[m])
        ELSE g[m]]

\* merge AP -> global: g[mac] = best_record(g.get(mac, rec), rec)
merge_global(g, s) ==
    [m \in (DOMAIN g) \cup (DOMAIN s) |->
        IF m \in DOMAIN s
        THEN best_record(IF m \in DOMAIN g THEN g[m] ELSE s[m], s[m])
        ELSE g[m]]

NoSightings ==
    [tracked |-> EmptyDict, unknown |-> EmptyDict, keys |-> << >>, sighted |-> {}]

\* ---------------------------------------------------------------------------
\* The per-host caches.  A cache is a dict from AP host to the cached value.
\* ---------------------------------------------------------------------------
WATCHED_THRESHOLD_PERCENT == 85
MIN_DURATION_SECONDS == 600

iface_refresh_every_cycles == 40
ssid_refresh_every_cycles == 20

\* the interface list is fetched again in every cycle
iface_fetch_due_always(host, cache, cyc) == TRUE

\* "ap.host not in iface_cache or (cycle % iface_refresh_every_cycles == 1)"
iface_fetch_due(host, cache, cyc) ==
    host \notin DOMAIN cache \/ cyc % iface_refresh_every_cycles = 1

\* the SSID map is refreshed on the cycle numbers 1, 21, 41, ...
ssid_fetch_due_by_number(host, cache, cache_cycle, cyc) ==
    host \notin DOMAIN cache \/ cyc % ssid_refresh_every_cycles = 1

\* "ap.host not in ssid_cache or (cycle - ssid_cache_cycle.get(ap.host, 0) >=
\* ssid_refresh_every_cycles)"
ssid_fetch_due(host, cache, cache_cycle, cyc) ==
    \/ host \notin DOMAIN cache
    \/ cyc - (IF host \in DOMAIN cache_cycle THEN cache_cycle[host] ELSE 0)
          >= ssid_refresh_every_cycles

\* the state of the poll loop before the first AP of a cycle: empty merged
\* maps, the caches as the previous cycle left them.  log gets one entry per
\* AP: what the AP answered and which fetches were made for it.
StartOfPoll(ic, sc, scc) ==
    [tracked |-> EmptyDict, unknown |-> EmptyDict, keys |-> << >>,
     sighted |-> {}, iface_cache |-> ic, ssid_cache |-> sc,
     ssid_cache_cycle |-> scc, log |-> << >>]

LogEntry(out, iface_fetch, ssid_fetch) ==
    [out |-> out, iface_fetch |-> iface_fetch, ssid_fetch |-> ssid_fetch]

\* only the interfaces of the cached list are asked for their stations
polled_rows(rows, ifaces) ==
    SelectSeq(rows, LAMBDA r : \E k \in DOMAIN ifaces : ifaces[k] = r.iface)

\* a failed ssh call is taken for an empty answer, only an exception skips
\* the AP
ssh_failed_exception_only(status) == status = "exception"

\* "if rc != 0: continue", or an exception on the way
ssh_failed(status) == status # "ok"

\* the body of the try block for one AP, lines 635 to 766: the caches, the
\* ssh call, the per-AP maps and their merge into the global maps
ap_pass(ap, out, learn, extended, cyc, glob) ==
    LET host == ap.host
        ifetch == iface_fetch_due(host, glob.iface_cache, cyc)
    IN  IF ifetch /\ out.ifaces.kind = "raise"
        THEN [glob EXCEPT !.log = Append(@, LogEntry(out, "raised", "none"))]
        ELSE
        LET ic == IF ifetch THEN Put(glob.iface_cache, host, out.ifaces.list)
                  ELSE glob.iface_cache
            sfetch == extended /\ ssid_fetch_due(host, glob.ssid_cache,
                                                 glob.ssid_cache_cycle, cyc)
            g1 == [glob EXCEPT !.iface_cache = ic]
            ilog == IF ifetch THEN "fetched" ELSE "none"
        IN  IF sfetch /\ out.ssids.kind = "raise"
            THEN [g1 EXCEPT !.log = Append(@, LogEntry(out, ilog, "raised"))]
            ELSE
            LET sc == IF sfetch THEN Put(glob.ssid_cache, host, out.ssids.map)
                      ELSE glob.ssid_cache
                scc == IF sfetch THEN Put(glob.ssid_cache_cycle, host, cyc)
                       ELSE glob.ssid_cache_cycle
                ext == IF extended
                       THEN Extended(IF host \in DOMAIN sc THEN sc[host] ELSE EmptyDict)
                       ELSE NotExtended
                g2 == [g1 EXCEPT !.ssid_cache = sc, !.ssid_cache_cycle = scc,
                                 !.log = Append(@, LogEntry(out, ilog,
                                     IF sfetch THEN "fetched" ELSE "none"))]
            IN  IF ssh_failed(out.status) THEN g2
                ELSE
                LET s == seen_ap(ap, polled_rows(out.rows, ic[host]), out.neigh,
                                 learn, ext, NoSightings)
                IN  [g2 EXCEPT
                        !.tracked = merge_global(@, s.tracked),
                        !.unknown = IF learn THEN merge_global(@, s.unknown) ELSE @,
                        !.keys = IF learn
                                 THEN @ \o SelectSeq(s.keys,
                                        LAMBDA k : k \notin DOMAIN glob.unknown)
                                 ELSE @,
                        !.sighted = @ \cup s.sighted]

\* the first failure of an AP ends the loop over the APs
RECURSIVE poll_aps_abort(_, _, _, _, _, _, _)
poll_aps_abort(apl, polls, i, learn, extended, cyc, glob) ==
    IF i > Len(apl) THEN glob
    ELSE IF ssh_failed(polls[i].status)
    THEN ap_pass(apl[i], polls[i], learn, extended, cyc, glob)
    ELSE poll_aps_abort(apl, polls, i + 1, learn, extended, cyc,
                        ap_pass(apl[i], polls[i], learn, extended, cyc, glob))

\* The "for ap in aps" loop: APs 1..n in order, each inside its own try block.
RECURSIVE poll_aps(_, _, _, _, _, _, _)
poll_aps(apl, polls, i, learn, extended, cyc, glob) ==
    IF i > Len(apl) THEN glob
    ELSE poll_aps(apl, polls, i + 1, learn, extended, cyc,
                  ap_pass(apl[i], polls[i], learn, extended, cyc, glob))

\* the merged maps and the caches of a poll, without the log
Unlogged(glob) == [glob EXCEPT !.log = << >>]

\* Every state (merged maps and caches) the loop over the APs can end in, for
\* each AP list and learn_mode, without extended mode: one for each choice of
\* what the APs answer.  In PollOutcomes and MixedPollOutcomes every interface
\* detection answers the same two interfaces and none raises, so the state the
\* loop ends in is the same whatever the caches and the cycle number it
\* starts with (each host ends with that list cached); the table is computed
\* for the first cycle.
poll_results ==
    [apl \in APConfigs, learn \in BOOLEAN |->
        {Unlogged(poll_aps(apl, polls, 1, learn, FALSE, 1,
                           StartOfPoll(EmptyDict, EmptyDict, EmptyDict))) :
            polls \in [DOMAIN apl -> PollOutcomes]}]

\* the same at the site where unknown devices are around
mixed_poll_results ==
    [apl \in APConfigs, learn \in BOOLEAN |->
        {Unlogged(poll_aps(apl, polls, 1, learn, FALSE, 1,
                           StartOfPoll(EmptyDict, EmptyDict, EmptyDict))) :
            polls \in [DOMAIN apl -> MixedPollOutcomes]}]

\* ---------------------------------------------------------------------------
\* State
\* ---------------------------------------------------------------------------
VARIABLES
    aps,                 \* the configured AP list (fixed after start)
    away_after,          \* away_after_misses (fixed after start)
    learn_mode,          \* learn_mode (fixed after start)
    extended_mode,       \* extended_mode (fixed after start)
    iface_cache,         \* per AP host: the cached list of Wi-Fi interfaces
    ssid_cache,          \* per AP host: the cached interface -> SSID map
    ssid_cache_cycle,    \* per AP host: the cycle of the latest SSID fetch
    cycle,               \* the loop's cycle counter
    now,                 \* the wall clock, in seconds
    prev_home, prev_ap, prev_ap_host, prev_floor, prev_floor_attr, prev_ip,
    last_floor_change, roam_count, misses, last_seen, last_seen_iso,
    seen_global_tracked, \* the merged tracked map of the latest cycle
    mqtt_state,          \* per MAC: the state message published in the latest cycle
    mqtt_attrs,          \* per MAC: the attributes message published in the latest cycle
    notice,              \* per MAC: the [state] line logged in the latest cycle
    unseen_run,          \* history: consecutive latest cycles without a sighting
    gap,                 \* history: value of unseen_run before the latest cycle
    last_obs,            \* history: per MAC, what its most recent sighting published
    learn_max_entries,   \* learn_max_entries (fixed after start)
    seen_unknown,        \* the learning store, entries in dict order
    learn_dirty,         \* the store's dirty flag
    running,             \* FALSE once the process was stopped
    store_file,          \* content of /data/seen_devices.json, None if absent
    tmp_file,            \* content of /data/seen_devices.json.tmp, None if absent
    sighted,             \* history: MACs in the tables of the APs polled with rc = 0
    upserts,             \* history: the entries upserted in the latest cycle, in order
    trim_pass,           \* history: the store before and after the latest cycle's trim
    flush,               \* history: how the latest cycle's save went, "none" if no save
    save_log,            \* history: how every save so far went, in order
    polled,              \* history: per AP, what it answered in the latest cycle and
                         \* which fetches were made (kept by the runs that need it)
    quiet_run,           \* history: per MAC, the consecutive latest cycles in which
                         \* every AP failed or had no row for it (where polled is kept)
    call,                \* a function applied on its own: its name and arguments
    ret,                 \* what that application returned, None before it
    sent_file,           \* Trakt bridge: /data/sent_keys.json, None if absent, else
                         \* Complete(key -> entry) or what a broken write left
    tokens_file,         \* Trakt bridge: content of /data/trakt_tokens.json, None if absent
    heard,               \* history: the new_state attributes of the latest message
    stopped,             \* history: the latest message handled and what it led to
    alive,               \* Trakt bridge: the process is running
    restarts,            \* history: how often the bridge has been started again
    posted               \* history: key -> number of submissions Trakt answered
                         \* with 200 or 201

\* the variables of the poll loop
loop_vars ==
    << aps, away_after, learn_mode, extended_mode, iface_cache, ssid_cache,
       ssid_cache_cycle, cycle, now,
       prev_home, prev_ap, prev_ap_host, prev_floor, prev_floor_attr, prev_ip,
       last_floor_change, roam_count, misses, last_seen, last_seen_iso,
       seen_global_tracked, mqtt_state, mqtt_attrs, notice, unseen_run, gap,
       last_obs, learn_max_entries, seen_unknown, learn_dirty, running,
       store_file, tmp_file, sighted, upserts, trim_pass, flush, save_log,
       polled, quiet_run >>

\* the variables of the Trakt bridge
bridge_vars == << sent_file, tokens_file, heard, stopped, alive, restarts, posted >>

vars == << loop_vars, call, ret, bridge_vars >>

NoNotice == [kind |-> "none"]

\* the attributes of a sighting that outlive it
ObsKeys ==
    {"ap_name", "ap_host", "floor", "prev_floor", "last_floor_change",
     "roam_count", "last_seen_ts", "last_seen_iso"}

\* ---------------------------------------------------------------------------
\* "update misses/last_seen": one device, given the cycle's merged map sgt
\* and the time ts returned by now_ts_iso()
\* ---------------------------------------------------------------------------
\* the counter stops growing once the device is away
misses_after_capped(mac, sgt) ==
    IF mac \in DOMAIN sgt THEN 0
    ELSE IF misses[mac] >= away_after THEN misses[mac] ELSE misses[mac] + 1

misses_after(mac, sgt) ==
    IF mac \in DOMAIN sgt THEN 0 ELSE misses[mac] + 1

\* last_seen stamped on every cycle
last_seen_after_always(mac, sgt, ts) == ts

last_seen_after(mac, sgt, ts) ==
    IF mac \in DOMAIN sgt THEN ts ELSE last_seen[mac]

last_seen_iso_after(mac, sgt, ts) ==
    IF mac \in DOMAIN sgt THEN Iso(ts) ELSE last_seen_iso[mac]

\* ---------------------------------------------------------------------------
\* "tracked publish + change-only logs": one device
\* ---------------------------------------------------------------------------
\* no debounce: away on the first unobserved cycle
became_away_now_eager(mac, sgt) == mac \notin DOMAIN sgt

\* off by one: away only after more than away_after misses
became_away_now_strict(mac, sgt) ==
    (mac \notin DOMAIN sgt) /\ misses_after(mac, sgt) > away_after

became_away_now(mac, sgt) ==
    (mac \notin DOMAIN sgt) /\ misses_after(mac, sgt) >= away_after

\* a roam counted only when the device was Home in the previous state
roamed_while_home(mac, ap_now) ==
    prev_home[mac] = Some(TRUE) /\ Truthy(ap_now) /\ ap_now # prev_ap[mac]

\* if prev_ap.get(mac) and ap_now and ap_now != prev_ap[mac]
roamed(mac, ap_now) ==
    Truthy(prev_ap[mac]) /\ Truthy(ap_now) /\ ap_now # prev_ap[mac]

\* the floor test without "a previous floor exists"
floor_changed_no_prev(mac, floor_now) ==
    Truthy(floor_now) /\ floor_now # prev_floor[mac]

\* if prev_floor.get(mac) and floor_now and floor_now != prev_floor[mac]
floor_changed(mac, floor_now) ==
    Truthy(prev_floor[mac]) /\ Truthy(floor_now) /\ floor_now # prev_floor[mac]

\* rec["misses"] read before the counter was updated
home_rec_stale_misses(mac, sgt, ts) ==
    [k \in (DOMAIN sgt[mac]) \cup
           {"last_seen_ts", "last_seen_iso", "misses",
            "prev_floor", "last_floor_change", "roam_count"} |->
        CASE k = "last_seen_ts" -> Some(last_seen_after(mac, sgt, ts))
          [] k = "last_seen_iso" -> Some(last_seen_iso_after(mac, sgt, ts))
          [] k = "misses" -> Some(misses[mac])
          [] k = "prev_floor" -> prev_floor_attr[mac]
          [] k = "last_floor_change" -> last_floor_change[mac]
          [] k = "roam_count" -> Some(roam_count[mac])
          [] OTHER -> sgt[mac][k]]

\* rec = dict(seen_global_tracked[mac]) with the six bookkeeping keys set
home_rec(mac, sgt, ts) ==
    [k \in (DOMAIN sgt[mac]) \cup
           {"last_seen_ts", "last_seen_iso", "misses",
            "prev_floor", "last_floor_change", "roam_count"} |->
        CASE k = "last_seen_ts" -> Some(last_seen_after(mac, sgt, ts))
          [] k = "last_seen_iso" -> Some(last_seen_iso_after(mac, sgt, ts))
          [] k = "misses" -> Some(misses_after(mac, sgt))
          [] k = "prev_floor" -> prev_floor_attr[mac]
          [] k = "last_floor_change" -> last_floor_change[mac]
          [] k = "roam_count" -> Some(roam_count[mac])
          [] OTHER -> sgt[mac][k]]

roam_count_after(mac, rec) ==
    IF roamed(mac, Get(rec, "ap_name")) THEN roam_count[mac] + 1 ELSE roam_count[mac]

\* rec["roam_count"] not refreshed after the increment
home_attrs_stale_roam(mac, rec) ==
    IF floor_changed(mac, Get(rec, "floor"))
    THEN Put(Put(rec, "prev_floor", prev_floor[mac]),
             "last_floor_change", Get(rec, "last_seen_iso"))
    ELSE rec

\* the attributes published on a home cycle: rec after the roam and floor updates
home_attrs(mac, rec) ==
    LET rec1 == IF roamed(mac, Get(rec, "ap_name"))
                THEN Put(rec, "roam_count", Some(roam_count_after(mac, rec)))
                ELSE rec
    IN  IF floor_changed(mac, Get(rec, "floor"))
        THEN Put(Put(rec1, "prev_floor", prev_floor[mac]),
                 "last_floor_change", Get(rec1, "last_seen_iso"))
        ELSE rec1

\* the floor test placed before the AP test
home_notice_floor_first(mac, rec) ==
    LET ap_now == Get(rec, "ap_name")
        floor_now == Get(rec, "floor")
        ip_now == Get(rec, "ip")
        rssi_now == Get(rec, "rssi")
    IN  IF prev_home[mac] # Some(TRUE)
        THEN [kind |-> "home", ap |-> ap_now, floor |-> floor_now,
              rssi |-> rssi_now, ip |-> ip_now]
        ELSE IF Truthy(floor_now) /\ floor_now # prev_floor[mac]
        THEN [kind |-> "floor", floor |-> floor_now, was |-> prev_floor[mac]]
        ELSE IF ap_now # prev_ap[mac]
        THEN [kind |-> "moved", ap |-> ap_now, was |-> prev_ap[mac],
              floor |-> floor_now, rssi |-> rssi_now]
        ELSE IF Truthy(ip_now) /\ ip_now # prev_ip[mac]
        THEN [kind |-> "ip", ip |-> ip_now, was |-> prev_ip[mac]]
        ELSE NoNotice

\* the [state] line of a home cycle: the first branch of the if/elif chain
home_notice(mac, rec) ==
    LET ap_now == Get(rec, "ap_name")
        floor_now == Get(rec, "floor")
        ip_now == Get(rec, "ip")
        rssi_now == Get(rec, "rssi")
    IN  IF prev_home[mac] # Some(TRUE)
        THEN [kind |-> "home", ap |-> ap_now, floor |-> floor_now,
              rssi |-> rssi_now, ip |-> ip_now]
        ELSE IF ap_now # prev_ap[mac]
        THEN [kind |-> "moved", ap |-> ap_now, was |-> prev_ap[mac],
              floor |-> floor_now, rssi |-> rssi_now]
        ELSE IF Truthy(floor_now) /\ floor_now # prev_floor[mac]
        THEN [kind |-> "floor", floor |-> floor_now, was |-> prev_floor[mac]]
        ELSE IF Truthy(ip_now) /\ ip_now # prev_ip[mac]
        THEN [kind |-> "ip", ip |-> ip_now, was |-> prev_ip[mac]]
        ELSE NoNotice

\* the away attributes built without the last-known AP and floor
away_attrs_blank(mac, sgt, ts) ==
    [ap_name |-> None, ap_host |-> None,
     floor |-> None, iface |-> None, band |-> None,
     rssi |-> None, ip |-> None, misses |-> Some(misses_after(mac, sgt)),
     last_seen_ts |-> Some(last_seen_after(mac, sgt, ts)),
     last_seen_iso |-> Some(last_seen_iso_after(mac, sgt, ts)),
     prev_floor |-> prev_floor_attr[mac],
     last_floor_change |-> last_floor_change[mac],
     roam_count |-> Some(roam_count[mac])]

away_attrs(mac, sgt, ts) ==
    [ap_name |-> prev_ap[mac], ap_host |-> prev_ap_host[mac],
     floor |-> prev_floor[mac], iface |-> None, band |-> None,
     rssi |-> None, ip |-> None, misses |-> Some(misses_after(mac, sgt)),
     last_seen_ts |-> Some(last_seen_after(mac, sgt, ts)),
     last_seen_iso |-> Some(last_seen_iso_after(mac, sgt, ts)),
     prev_floor |-> prev_floor_attr[mac],
     last_floor_change |-> last_floor_change[mac],
     roam_count |-> Some(roam_count[mac])]

\* "if extended_mode: away_attrs.update({...: None})"
ExtendedAwayKeys ==
    {"vap_if", "ssid", "chan", "tx_rate_raw", "rx_rate_raw", "tx_mbps",
     "rx_mbps", "min_rssi", "max_rssi", "idle_s", "mode", "psmode",
     "assoctime", "presence_confidence"}

away_attrs_extended(attrs) ==
    IF extended_mode
    THEN [k \in (DOMAIN attrs) \cup ExtendedAwayKeys |->
            IF k \in ExtendedAwayKeys THEN None ELSE attrs[k]]
    ELSE attrs

\* the not_home line logged on every away cycle
away_notice_always(mac, sgt) ==
    [kind |-> "not_home", misses |-> misses_after(mac, sgt),
     last_ap |-> prev_ap[mac], floor |-> prev_floor[mac]]

\* the [state] line of an away cycle
away_notice(mac, sgt) ==
    IF prev_home[mac] # Some(FALSE)
    THEN [kind |-> "not_home", misses |-> misses_after(mac, sgt),
          last_ap |-> prev_ap[mac], floor |-> prev_floor[mac]]
    ELSE NoNotice

\* the cycle that publishes not_home forgets the AP and floor as it forgets
\* the IP
device_step_away_forgets(mac, sgt, ts) ==
    LET kept == [prev_home |-> prev_home[mac], prev_ap |-> prev_ap[mac],
                 prev_ap_host |-> prev_ap_host[mac], prev_floor |-> prev_floor[mac],
                 prev_floor_attr |-> prev_floor_attr[mac], prev_ip |-> prev_ip[mac],
                 last_floor_change |-> last_floor_change[mac],
                 roam_count |-> roam_count[mac],
                 misses |-> misses_after(mac, sgt),
                 last_seen |-> last_seen_after(mac, sgt, ts),
                 last_seen_iso |-> last_seen_iso_after(mac, sgt, ts),
                 mqtt_state |-> None, mqtt_attrs |-> None, notice |-> NoNotice]
    IN  IF mac \in DOMAIN sgt THEN
            LET rec == home_rec(mac, sgt, ts)
                attrs == home_attrs(mac, rec)
            IN  [kept EXCEPT
                    !.prev_home = Some(TRUE),
                    !.prev_ap = Get(rec, "ap_name"),
                    !.prev_ap_host = Get(rec, "ap_host"),
                    !.prev_floor = Get(rec, "floor"),
                    !.prev_ip = Get(rec, "ip"),
                    !.roam_count = roam_count_after(mac, rec),
                    !.prev_floor_attr = Get(attrs, "prev_floor"),
                    !.last_floor_change = Get(attrs, "last_floor_change"),
                    !.mqtt_state = Some("home"),
                    !.mqtt_attrs = Some(attrs),
                    !.notice = home_notice(mac, rec)]
        ELSE IF became_away_now(mac, sgt) THEN
            [kept EXCEPT
                !.prev_home = Some(FALSE),
                !.prev_ap = None,
                !.prev_floor = None,
                !.prev_ip = None,
                !.mqtt_state = Some("not_home"),
                !.mqtt_attrs = Some(away_attrs_extended(away_attrs(mac, sgt, ts))),
                !.notice = away_notice(mac, sgt)]
        ELSE kept

\* Everything one device's two loop bodies assign and publish in a cycle.
device_step(mac, sgt, ts) ==
    LET kept == [prev_home |-> prev_home[mac], prev_ap |-> prev_ap[mac],
                 prev_ap_host |-> prev_ap_host[mac], prev_floor |-> prev_floor[mac],
                 prev_floor_attr |-> prev_floor_attr[mac], prev_ip |-> prev_ip[mac],
                 last_floor_change |-> last_floor_change[mac],
                 roam_count |-> roam_count[mac],
                 misses |-> misses_after(mac, sgt),
                 last_seen |-> last_seen_after(mac, sgt, ts),
                 last_seen_iso |-> last_seen_iso_after(mac, sgt, ts),
                 mqtt_state |-> None, mqtt_attrs |-> None, notice |-> NoNotice]
    IN  IF mac \in DOMAIN sgt THEN
            LET rec == home_rec(mac, sgt, ts)
                attrs == home_attrs(mac, rec)
            IN  [kept EXCEPT
                    !.prev_home = Some(TRUE),
                    !.prev_ap = Get(rec, "ap_name"),
                    !.prev_ap_host = Get(rec, "ap_host"),
                    !.prev_floor = Get(rec, "floor"),
                    !.prev_ip = Get(rec, "ip"),
                    !.roam_count = roam_count_after(mac, rec),
                    !.prev_floor_attr = Get(attrs, "prev_floor"),
                    !.last_floor_change = Get(attrs, "last_floor_change"),
                    !.mqtt_state = Some("home"),
                    !.mqtt_attrs = Some(attrs),
                    !.notice = home_notice(mac, rec)]
        ELSE IF became_away_now(mac, sgt) THEN
            [kept EXCEPT
                !.prev_home = Some(FALSE),
                !.prev_ip = None,
                !.mqtt_state = Some("not_home"),
                !.mqtt_attrs = Some(away_attrs_extended(away_attrs(mac, sgt, ts))),
                !.notice = away_notice(mac, sgt)]
        ELSE kept

\* ---------------------------------------------------------------------------
\* The learning store.  seen_unknown is a Python dict from MAC to entry; the
\* model holds it as the sequence of its entries in the dict's iteration
\* order (the order of first insertion), the key of an entry being its "mac".
\* ---------------------------------------------------------------------------
ItemMac(item) == Val(item["mac"])

\* How the address of a stored entry can be spelled.  The program itself only
\* ever stores the lowercase spelling (the number of the address); a store
\* file written by hand can spell the same address in capitals, or hold a text
\* that is no address at all.
Upper(mac) == mac + 256

NotAMac == 512

\* str.lower()
lower(mac) == IF mac >= 256 /\ mac < NotAMac THEN mac - 256 ELSE mac

\* MAC_RE.match, compiled with re.IGNORECASE
MAC_RE_match(mac) == mac < NotAMac

\* the dict key of an entry: item["mac"].lower()
ItemKey(item) == lower(ItemMac(item))

Keys(seen_map) == {ItemKey(seen_map[i]) : i \in DOMAIN seen_map}

\* seen_map.get(mac)
Lookup(seen_map, mac) ==
    IF mac \in Keys(seen_map)
    THEN Some(seen_map[CHOOSE i \in DOMAIN seen_map : ItemKey(seen_map[i]) = mac])
    ELSE None

\* seen_map[mac] = item: a present key keeps its place, a new key goes last
Assign(seen_map, mac, item) ==
    IF mac \in Keys(seen_map)
    THEN [i \in DOMAIN seen_map |->
            IF ItemKey(seen_map[i]) = mac THEN item ELSE seen_map[i]]
    ELSE Append(seen_map, item)

\* {key(item): item for item in items}
RECURSIVE dict_from(_, _)
dict_from(items, acc) ==
    IF items = << >> THEN acc
    ELSE dict_from(Tail(items), Assign(acc, ItemKey(Head(items)), Head(items)))

\* int(x.get("last_seen_ts") or 0)
ItemTs(x) ==
    LET t == Get(x, "last_seen_ts") IN IF t = None THEN 0 ELSE Val(t)

\* list.sort(key = last_seen_ts, reverse = True) is stable: entries with equal
\* timestamps keep their order.  Insertion of x behind every entry that is
\* not older than x.
insert_desc(sorted, x) ==
    LET p == Cardinality({i \in DOMAIN sorted : ItemTs(sorted[i]) >= ItemTs(x)})
    IN  SubSeq(sorted, 1, p) \o << x >> \o SubSeq(sorted, p + 1, Len(sorted))

RECURSIVE sort_desc(_, _)
sort_desc(items, acc) ==
    IF items = << >> THEN acc
    ELSE sort_desc(Tail(items), insert_desc(acc, Head(items)))

\* the oldest entries first
insert_asc(sorted, x) ==
    LET p == Cardinality({i \in DOMAIN sorted : ItemTs(sorted[i]) <= ItemTs(x)})
    IN  SubSeq(sorted, 1, p) \o << x >> \o SubSeq(sorted, p + 1, Len(sorted))

RECURSIVE sort_asc(_, _)
sort_asc(items, acc) ==
    IF items = << >> THEN acc
    ELSE sort_asc(Tail(items), insert_asc(acc, Head(items)))

Min(a, b) == IF a <= b THEN a ELSE b

\* a prefix one entry too long
trim_seen_one_more(seen_map, max_entries) ==
    IF max_entries <= 0 THEN << >>
    ELSE LET items == sort_desc(seen_map, << >>)
             kept == SubSeq(items, 1, Min(max_entries + 1, Len(items)))
         IN  dict_from(SelectSeq(kept, LAMBDA item : "mac" \in DOMAIN item), << >>)

\* the prefix of the ascending order: the most recent entries are evicted
trim_seen_keep_oldest(seen_map, max_entries) ==
    IF max_entries <= 0 THEN << >>
    ELSE LET items == sort_asc(seen_map, << >>)
             kept == SubSeq(items, 1, Min(max_entries, Len(items)))
         IN  dict_from(SelectSeq(kept, LAMBDA item : "mac" \in DOMAIN item), << >>)

trim_seen(seen_map, max_entries) ==
    IF max_entries <= 0 THEN << >>
    ELSE LET items == sort_desc(seen_map, << >>)
             kept == SubSeq(items, 1, Min(max_entries, Len(items)))
         IN  dict_from(SelectSeq(kept, LAMBDA item : "mac" \in DOMAIN item), << >>)

\* an upsert of a known MAC keeps the entry's old timestamp
new_item_old_ts(prev, mac, rec, ts) ==
    LET prev_ip_val == IF prev # None THEN Get(Val(prev), "ip") ELSE None
        new_ip == Get(rec, "ip")
        old_ts == IF prev # None THEN ItemTs(Val(prev)) ELSE ts
    IN  [mac |-> Some(mac),
         ip |-> IF Truthy(new_ip) THEN new_ip ELSE prev_ip_val,
         ap_name |-> Get(rec, "ap_name"),
         ap_host |-> Get(rec, "ap_host"),
         floor |-> Get(rec, "floor"),
         iface |-> Get(rec, "iface"),
         band |-> Get(rec, "band"),
         rssi |-> Get(rec, "rssi"),
         last_seen_ts |-> Some(old_ts),
         last_seen_iso |-> Some(Iso(old_ts))]

\* the entry an upsert stores for mac, given the store's entry prev (an
\* Optional) and the cycle's merged sighting rec
new_item(prev, mac, rec, ts) ==
    LET prev_ip_val == IF prev # None THEN Get(Val(prev), "ip") ELSE None
        new_ip == Get(rec, "ip")
    IN  [mac |-> Some(mac),
         ip |-> IF Truthy(new_ip) THEN new_ip ELSE prev_ip_val,
         ap_name |-> Get(rec, "ap_name"),
         ap_host |-> Get(rec, "ap_host"),
         floor |-> Get(rec, "floor"),
         iface |-> Get(rec, "iface"),
         band |-> Get(rec, "band"),
         rssi |-> Get(rec, "rssi"),
         last_seen_ts |-> Some(ts),
         last_seen_iso |-> Some(Iso(ts))]

\* every upsert marks the store dirty
upsert_marks_dirty_always(prev, rec) == TRUE

\* is_new or ip_became_known
upsert_marks_dirty(prev, rec) ==
    LET prev_ip_val == IF prev # None THEN Get(Val(prev), "ip") ELSE None
        new_ip == Get(rec, "ip")
    IN  prev = None \/ (~Truthy(prev_ip_val) /\ Truthy(new_ip))

\* "for mac, rec in seen_global_unknown.items()": acc is the store, the dirty
\* flag and the entries upserted so far
RECURSIVE upsert_all(_, _, _, _)
upsert_all(keys, unknown, ts, acc) ==
    IF keys = << >> THEN acc
    ELSE
        LET mac == Head(keys)
            rec == unknown[mac]
            prev == Lookup(acc.store, mac)
            item == new_item(prev, mac, rec, ts)
        IN  upsert_all(Tail(keys), unknown, ts,
                [store |-> Assign(acc.store, mac, item),
                 dirty |-> acc.dirty \/ upsert_marks_dirty(prev, rec),
                 upserts |-> Append(acc.upserts, item)])

\* The learn block up to the flush: the upserts and the trim pass.  ran tells
\* whether the block was entered, before is the store between the upserts and
\* the trim.
learn_pass(seen_map, dirty, glob, ts, max_entries, learn) ==
    IF learn /\ DOMAIN glob.unknown # {}
    THEN LET up == upsert_all(glob.keys, glob.unknown, ts,
                      [store |-> seen_map, dirty |-> dirty, upserts |-> << >>])
             trimmed == trim_seen(up.store, max_entries)
         IN  [ran |-> TRUE, before |-> up.store, store |-> trimmed,
              dirty |-> up.dirty \/ Len(trimmed) # Len(up.store),
              upserts |-> up.upserts]
    ELSE [ran |-> FALSE, before |-> seen_map, store |-> seen_map,
          dirty |-> dirty, upserts |-> << >>]

\* ---------------------------------------------------------------------------
\* The persistence file.  A file holds a JSON document completely, or a proper
\* prefix of its text (a write that stopped part-way); an absent file is None.
\* os.replace is the operating system's atomic rename.
\* ---------------------------------------------------------------------------
Complete(doc) == Some([complete |-> TRUE, doc |-> doc])
Partial(doc) == Some([complete |-> FALSE, doc |-> doc])

\* Where a save can stop: an exception raised by open(), by json.dump() or by
\* os.replace(), the process stopped while dumping or just before the
\* replace, or nothing of that.
SaveRaises == {"open_raises", "dump_raises", "replace_raises"}
SaveKills == {"killed_in_dump", "killed_before_replace"}
SaveStops == {"ok"} \cup SaveRaises \cup SaveKills

payload_of(seen_map, ts) ==
    [updated_at |-> Iso(ts), seen |-> sort_desc(seen_map, << >>)]

\* the document dumped straight into the store file
save_seen_devices_in_place(seen_map, ts, files, stop) ==
    LET payload == payload_of(seen_map, ts)
    IN  CASE stop = "open_raises" -> files
          [] stop \in {"dump_raises", "killed_in_dump"} ->
                [files EXCEPT !.store = Partial(payload)]
          [] OTHER -> [files EXCEPT !.store = Complete(payload)]

\* files is the pair of the store file and the temporary file
save_seen_devices(seen_map, ts, files, stop) ==
    LET payload == payload_of(seen_map, ts)
    IN  CASE stop = "open_raises" -> files
          [] stop \in {"dump_raises", "killed_in_dump"} ->
                [files EXCEPT !.tmp = Partial(payload)]
          [] stop \in {"replace_raises", "killed_before_replace"} ->
                [files EXCEPT !.tmp = Complete(payload)]
          [] OTHER -> [store |-> Complete(payload), tmp |-> None]

\* MAC_RE compiled without re.IGNORECASE and matched against the "mac" as it
\* is spelled: an item spelled in capitals is skipped
load_seen_devices_case_sensitive(file) ==
    IF file = None \/ ~Val(file).complete THEN << >>
    ELSE dict_from(SelectSeq(Val(file).doc.seen,
                             LAMBDA item : /\ Get(item, "mac") # None
                                           /\ ItemMac(item) < 256),
                   << >>)

\* a file that is absent or does not parse raises inside the try block; an
\* item whose "mac" is missing or null, or does not match MAC_RE, is skipped,
\* and an item is stored under the lowercase spelling of its "mac", a later
\* item of the list replacing an earlier one with the same key
load_seen_devices(file) ==
    IF file = None \/ ~Val(file).complete THEN << >>
    ELSE dict_from(SelectSeq(Val(file).doc.seen,
                             LAMBDA item : /\ Get(item, "mac") # None
                                           /\ MAC_RE_match(lower(ItemMac(item)))),
                   << >>)

\* an exception raised by the save ends the process
flush_store_fatal(seen_map, ts, files, stop) ==
    [seen_unknown |-> seen_map,
     files |-> save_seen_devices(seen_map, ts, files, stop),
     running |-> stop = "ok",
     learn_dirty |-> stop # "ok"]

\* a failed save empties the store in memory
flush_store_forgets(seen_map, ts, files, stop) ==
    [seen_unknown |-> IF stop \in SaveRaises THEN << >> ELSE seen_map,
     files |-> save_seen_devices(seen_map, ts, files, stop),
     running |-> stop \notin SaveKills,
     learn_dirty |-> stop \in SaveKills]

\* the flag is cleared only by a save that succeeded
flush_store_keeps_dirty(seen_map, ts, files, stop) ==
    [seen_unknown |-> seen_map,
     files |-> save_seen_devices(seen_map, ts, files, stop),
     running |-> stop \notin SaveKills,
     learn_dirty |-> stop # "ok"]

\* "if learn_dirty: try: save_seen_devices(...) except: warn; learn_dirty =
\* False".  A process stopped inside the save never reaches the assignment.
flush_store(seen_map, ts, files, stop) ==
    [seen_unknown |-> seen_map,
     files |-> save_seen_devices(seen_map, ts, files, stop),
     running |-> stop \notin SaveKills,
     learn_dirty |-> stop \in SaveKills]

\* no flush in this cycle
no_flush(lp, files) ==
    [seen_unknown |-> lp.store, files |-> files, running |-> TRUE,
     learn_dirty |-> lp.dirty]

\* ---------------------------------------------------------------------------
\* Init: the state main() builds before entering the loop
\* ---------------------------------------------------------------------------
\* what a function applied on its own has as call before any is applied
NoCall == [fn |-> "none"]

\* The state before the first cycle, for a configuration (AP list,
\* away_after_misses, learn_mode, learn_max_entries, extended_mode) and the
\* store file a previous run left behind.
StartExtended(apl, away, learn, max_entries, file, extended) ==
    /\ aps = apl
    /\ away_after = away
    /\ learn_mode = learn
    /\ extended_mode = extended
    /\ iface_cache = EmptyDict
    /\ ssid_cache = EmptyDict
    /\ ssid_cache_cycle = EmptyDict
    /\ polled = << >>
    /\ quiet_run = [m \in TrackedMacs |-> 0]
    /\ learn_max_entries = max_entries
    /\ store_file = file
    /\ tmp_file = None
    /\ seen_unknown = IF learn THEN load_seen_devices(file) ELSE << >>
    /\ learn_dirty = FALSE
    /\ running = TRUE
    /\ sighted = {}
    /\ upserts = << >>
    /\ trim_pass = None
    /\ flush = "none"
    /\ save_log = << >>
    /\ cycle = 0
    /\ now = 1
    /\ prev_home = [m \in TrackedMacs |-> None]
    /\ prev_ap = [m \in TrackedMacs |-> None]
    /\ prev_ap_host = [m \in TrackedMacs |-> None]
    /\ prev_floor = [m \in TrackedMacs |-> None]
    /\ prev_floor_attr = [m \in TrackedMacs |-> None]
    /\ prev_ip = [m \in TrackedMacs |-> None]
    /\ last_floor_change = [m \in TrackedMacs |-> None]
    /\ roam_count = [m \in TrackedMacs |-> 0]
    /\ misses = [m \in TrackedMacs |-> 0]
    /\ last_seen = [m \in TrackedMacs |-> 0]
    /\ last_seen_iso = [m \in TrackedMacs |-> ""]
    /\ seen_global_tracked = EmptyDict
    /\ mqtt_state = [m \in TrackedMacs |-> None]
    /\ mqtt_attrs = [m \in TrackedMacs |-> None]
    /\ notice = [m \in TrackedMacs |-> NoNotice]
    /\ unseen_run = [m \in TrackedMacs |-> 0]
    /\ gap = [m \in TrackedMacs |-> 0]
    /\ last_obs = [m \in TrackedMacs |-> None]

\* extended_mode is off by default
Start(apl, away, learn, max_entries, file) ==
    StartExtended(apl, away, learn, max_entries, file, FALSE)

\* the Trakt bridge is another program: where only the presence loop runs,
\* its files are absent and it has received nothing
BridgeOff ==
    /\ sent_file = None
    /\ tokens_file = None
    /\ heard = None
    /\ stopped = None
    /\ alive = FALSE
    /\ restarts = 0
    /\ posted = EmptyDict

\* learning off, the default learn_max_entries, no store file
Init ==
    /\ \E apl \in APConfigs : \E away \in 0..MaxAwayAfter :
            Start(apl, away, FALSE, 50, None)
    /\ call = NoCall
    /\ ret = None
    /\ BridgeOff

\* ---------------------------------------------------------------------------
\* One iteration of the "while True" loop
\* ---------------------------------------------------------------------------
\* an AP that failed in the cycle, by its entry in the log
Failed(entry) ==
    \/ entry.out.status # "ok"
    \/ entry.iface_fetch = "raised"
    \/ entry.ssid_fetch = "raised"

\* every AP failed or has no row for mac
AllFailedOrAbsent(log, mac) ==
    \A i \in DOMAIN log :
        Failed(log[i]) \/ \A k \in DOMAIN log[i].out.rows : log[i].out.rows[k].mac # mac

\* What follows the loop over the APs, given the state glob that loop ended
\* in: the miss counters, the publish phase, the learning store, the sleep.
CycleBody(glob) ==
        \E st \in {[m \in TrackedMacs |-> device_step(m, glob.tracked, now + poll_interval)]} :
        \E lp \in {learn_pass(seen_unknown, learn_dirty, glob, now + poll_interval,
                               learn_max_entries, learn_mode)} :
        \E stop \in (IF lp.ran /\ lp.dirty THEN SaveStops ELSE {"none"}) :
        \E fl \in {IF stop = "none"
                    THEN no_flush(lp, [store |-> store_file, tmp |-> tmp_file])
                    ELSE flush_store(lp.store, now + poll_interval,
                                     [store |-> store_file, tmp |-> tmp_file], stop)} :
            /\ iface_cache' = glob.iface_cache
            /\ ssid_cache' = glob.ssid_cache
            /\ ssid_cache_cycle' = glob.ssid_cache_cycle
            /\ polled' = glob.log
            /\ quiet_run' = IF glob.log = << >> THEN quiet_run
                            ELSE [m \in TrackedMacs |->
                                    IF AllFailedOrAbsent(glob.log, m)
                                    THEN quiet_run[m] + 1 ELSE 0]
            /\ seen_unknown' = fl.seen_unknown
            /\ learn_dirty' = fl.learn_dirty
            /\ running' = fl.running
            /\ store_file' = fl.files.store
            /\ tmp_file' = fl.files.tmp
            /\ sighted' = glob.sighted
            /\ upserts' = lp.upserts
            /\ trim_pass' = IF lp.ran
                             THEN Some([before |-> lp.before, after |-> lp.store])
                             ELSE None
            /\ flush' = stop
            /\ save_log' = IF stop = "none" THEN save_log ELSE Append(save_log, stop)
            /\ cycle' = cycle + 1
            /\ now' = now + poll_interval
            /\ seen_global_tracked' = glob.tracked
            /\ prev_home' = [m \in TrackedMacs |-> st[m].prev_home]
            /\ prev_ap' = [m \in TrackedMacs |-> st[m].prev_ap]
            /\ prev_ap_host' = [m \in TrackedMacs |-> st[m].prev_ap_host]
            /\ prev_floor' = [m \in TrackedMacs |-> st[m].prev_floor]
            /\ prev_floor_attr' = [m \in TrackedMacs |-> st[m].prev_floor_attr]
            /\ prev_ip' = [m \in TrackedMacs |-> st[m].prev_ip]
            /\ last_floor_change' = [m \in TrackedMacs |-> st[m].last_floor_change]
            /\ roam_count' = [m \in TrackedMacs |-> st[m].roam_count]
            /\ misses' = [m \in TrackedMacs |-> st[m].misses]
            /\ last_seen' = [m \in TrackedMacs |-> st[m].last_seen]
            /\ last_seen_iso' = [m \in TrackedMacs |-> st[m].last_seen_iso]
            /\ mqtt_state' = [m \in TrackedMacs |-> st[m].mqtt_state]
            /\ mqtt_attrs' = [m \in TrackedMacs |-> st[m].mqtt_attrs]
            /\ notice' = [m \in TrackedMacs |-> st[m].notice]
            /\ unseen_run' = [m \in TrackedMacs |->
                                IF m \in DOMAIN glob.tracked THEN 0
                                ELSE unseen_run[m] + 1]
            /\ gap' = unseen_run
            /\ last_obs' = [m \in TrackedMacs |->
                              IF m \in DOMAIN glob.tracked
                              THEN Some([k \in ObsKeys |->
                                           Get(Val(st[m].mqtt_attrs), k)])
                              ELSE last_obs[m]]

\* results is the table of the states the poll of the APs can end in, bound
\* the number of cycles of a run (fewer than iface_refresh_every_cycles).
CycleOn(results, bound) ==
    /\ running
    /\ cycle < bound
    /\ ~extended_mode
    /\ \E glob \in results[aps, learn_mode] : CycleBody(glob)
    /\ UNCHANGED << aps, away_after, learn_mode, extended_mode, learn_max_entries,
                    call, ret, bridge_vars >>

\* the same with the poll computed from what the APs answer, each answer
\* drawn from outcomes, and with the log of the poll kept
CycleWith(outcomes, bound) ==
    /\ running
    /\ cycle < bound
    /\ \E polls \in [DOMAIN aps -> outcomes] :
        \E glob \in {poll_aps(aps, polls, 1, learn_mode, extended_mode, cycle + 1,
                              StartOfPoll(iface_cache, ssid_cache, ssid_cache_cycle))} :
            CycleBody(glob)
    /\ UNCHANGED << aps, away_after, learn_mode, extended_mode, learn_max_entries,
                    call, ret, bridge_vars >>

Cycle == CycleOn(poll_results, MaxCycles)

Next == Cycle

Spec == Init /\ [][Next]_vars

\* ---------------------------------------------------------------------------
\* The loop at a site where unknown devices are around, with learning on or
\* off, and with the store file a previous run may have left behind
\* ---------------------------------------------------------------------------
LearnAPs == << AP("ap_a", "h1", "a"), AP("ap_b", "h2", "b") >>

\* an entry as an upsert writes it
StoredItem(mac, ip, ts) ==
    [mac |-> Some(mac), ip |-> ip, ap_name |-> Some("ap_a"),
     ap_host |-> Some("h1"), floor |-> Some("a"), iface |-> Some(WIFI0AP0),
     band |-> Some("2.4"), rssi |-> Some(30),
     last_seen_ts |-> Some(ts), last_seen_iso |-> Some(Iso(ts))]

\* three guests learned by a run that ended at time 1
FileThree ==
    Complete([updated_at |-> Iso(1),
              seen |-> << StoredItem(MacGuestA, None, 1),
                          StoredItem(MacGuestB, Some("10.0.0.7"), 1),
                          StoredItem(MacGuestC, None, 0) >>])

\* learn_mode, learn_max_entries and the store file at start.  The file can
\* hold more entries than learn_max_entries: the option may have been lowered
\* since the file was written.
LearnSetups ==
    { [learn |-> FALSE, max_entries |-> 2, file |-> FileThree],
      [learn |-> TRUE, max_entries |-> 2, file |-> None],
      [learn |-> TRUE, max_entries |-> 2, file |-> FileThree],
      [learn |-> TRUE, max_entries |-> 3, file |-> FileThree],
      [learn |-> TRUE, max_entries |-> 0, file |-> FileThree],
      [learn |-> TRUE, max_entries |-> -1, file |-> None] }

InitLearn ==
    /\ \E c \in LearnSetups : Start(LearnAPs, 1, c.learn, c.max_entries, c.file)
    /\ call = NoCall
    /\ ret = None
    /\ BridgeOff

CycleMixed == CycleOn(mixed_poll_results, MaxLearnCycles)

NextLearn == CycleMixed

SpecLearn == InitLearn /\ [][NextLearn]_vars

\* ---------------------------------------------------------------------------
\* A site whose APs fail: the phone and a guest are associated to an AP whose
\* ssh call returns rc # 0, times out or raises, or whose interface detection
\* raises, and the log of the poll is kept.  Learning is on.
\* ---------------------------------------------------------------------------
FailingTable ==
    << Row(WIFI0AP0, MacPhone, Some(30)), Row(WIFI1AP0, MacGuestA, Some(35)) >>

FailingPollOutcomes ==
    { Answer("ok", << >>, EmptyDict), Answer("ok", FailingTable, EmptyDict) }
    \cup { Answer(st, FailingTable, EmptyDict) : st \in {"rc_fail", "timeout", "exception"} }
    \cup { [Answer("ok", FailingTable, EmptyDict) EXCEPT !.ifaces = IfacesRaise] }

InitFail ==
    /\ \E away \in 1..(MaxFailCycles - 1) : Start(LearnAPs, away, TRUE, 50, None)
    /\ call = NoCall
    /\ ret = None
    /\ BridgeOff

CycleFailing == CycleWith(FailingPollOutcomes, MaxFailCycles)

NextFail == CycleFailing

SpecFail == InitFail /\ [][NextFail]_vars

\* ---------------------------------------------------------------------------
\* The loop over MaxCacheCycles cycles, with and without extended mode, at a
\* site of one AP.  The station is on both interfaces of the AP, stronger on
\* the second; the interface detection answers one interface, both, or
\* fails, and the SSID fetch answers a map, fails with a non-zero rc, or
\* raises.  A fetch that is not made in a cycle has no answer: the answers of
\* a cycle are drawn for the fetches that can be made in it.
\* ---------------------------------------------------------------------------
CacheTable ==
    << Row(WIFI0AP0, MacPhone, Some(30)), Row(WIFI1AP0, MacPhone, Some(40)) >>

HomeSsids ==
    Put(Put(EmptyDict, WIFI0AP0, << "h", "o", "m", "e" >>),
        WIFI1AP0, << "h", "o", "m", "e", "5" >>)

CachePollOutcomes ==
    { [Answer("ok", CacheTable, EmptyDict) EXCEPT !.ifaces = i, !.ssids = s] :
        i \in { IfacesOk(<< WIFI0AP0 >>), IfacesOk(BothIfaces), IfacesRaise },
        s \in { SsidsOk(HomeSsids), SsidsRcFail, SsidsRaise } }

CacheAPs == << AP("ap_a", "h1", "a") >>

InitCache ==
    /\ \E extended \in BOOLEAN : StartExtended(CacheAPs, 2, FALSE, 50, None, extended)
    /\ call = NoCall
    /\ ret = None
    /\ BridgeOff

\* the answers to the fetches that can be made for host in the next cycle
AnswersFor(host) ==
    { o \in CachePollOutcomes :
        /\ iface_fetch_due(host, iface_cache, cycle + 1) \/ o.ifaces = IfacesOk(BothIfaces)
        /\ \/ extended_mode /\ ssid_fetch_due(host, ssid_cache, ssid_cache_cycle, cycle + 1)
           \/ o.ssids = SsidsRcFail }

CycleCached == CycleWith(AnswersFor(aps[1].host), MaxCacheCycles)

NextCache == CycleCached

SpecCache == InitCache /\ [][NextCache]_vars

\* ---------------------------------------------------------------------------
\* best_record and trim_seen applied on their own, to every argument of a
\* bounded set
\* ---------------------------------------------------------------------------
RssiChoices == {None, Some(30), Some(40)}
IdleChoices == {None, Some(1), Some(5)}

\* a record of the merger: the keys rssi and idle_s are present or not, and
\* ap_name tells two records with equal rssi and idle_s apart
MergeRecord(ap_name, rssi, idle_s) ==
    LET r0 == [ap_name |-> Some(ap_name)]
        r1 == IF rssi = None THEN r0 ELSE Put(r0, "rssi", rssi)
    IN  IF idle_s = None THEN r1 ELSE Put(r1, "idle_s", idle_s)

MergeRecords ==
    {MergeRecord(n, r, i) : n \in {"ap_a", "ap_b"}, r \in RssiChoices, i \in IdleChoices}

BestCalls ==
    {[fn |-> "best_record", a |-> x, b |-> y] : x \in MergeRecords, y \in MergeRecords}

GuestMacs == {MacGuestA, MacGuestB, MacGuestC}

\* stores of up to three entries: every order of every set of guests, every
\* last_seen_ts in 0..MaxTrimTs
TrimStores ==
    UNION {
        {[i \in 1..n |-> [mac |-> Some(ms[i]), last_seen_ts |-> Some(ts[i])]] :
            ms \in {f \in [1..n -> GuestMacs] : \A i, j \in 1..n : f[i] = f[j] => i = j},
            ts \in [1..n -> 0..MaxTrimTs]} :
        n \in 0..Cardinality(GuestMacs)}

TrimCalls ==
    {[fn |-> "trim_seen", seen_map |-> m, max_entries |-> k] :
        m \in TrimStores, k \in (-1)..MaxTrim}

\* Stores to write and read back: every order of every set of guests, every
\* last_seen_ts in 0..MaxTrimTs, every entry spelled in lowercase (as an
\* upsert writes it) or in capitals (as a loaded file can have it), the
\* second guest with an address.
Spellings(mac) == {mac, Upper(mac)}

RoundTripItem(mac, spelled, ts) ==
    StoredItem(spelled, IF mac = MacGuestB THEN Some("10.0.0.7") ELSE None, ts)

RoundTripStores ==
    UNION {
        {[i \in 1..n |-> RoundTripItem(ms[i], IF up[i] THEN Upper(ms[i]) ELSE ms[i], ts[i])] :
            ms \in {f \in [1..n -> GuestMacs] : \A i, j \in 1..n : f[i] = f[j] => i = j},
            ts \in [1..n -> 0..MaxTrimTs],
            up \in [1..n -> BOOLEAN]} :
        n \in 0..Cardinality(GuestMacs)}

RoundTripCalls ==
    {[fn |-> "save_load", seen_map |-> m, ts |-> MaxTrimTs] : m \in RoundTripStores}

\* Options to resolve floors from: one AP entry (its name written in several
\* ways, its floor field absent, blank or given) and up to two override
\* entries.
RawApNames ==
    { << >>, << " " >>, << "a", "p", "_", "1" >>, << "A", "P", "_", "1" >>,
      << " ", "a", "p", "_", "1", " " >>, << "a", "p", "_" >>,
      << "A", "p", "_", " ", "1" >>, << "a", "p", "1" >> }

RawFloorFields == { None, Some(<< >>), Some(<< " " >>), Some(<< "2" >>), Some(<< " ", "2" >>) }

RawOverrideEntries ==
    { [ap_name |-> Some(n), floor |-> Some(f)] :
        n \in { << "a", "p", "_", "1" >>, << " ", "a", "p", "_", "1" >>, << "a", "p", "1" >> },
        f \in { << >>, << "9" >>, << " ", "8", " " >> } }

RawOverrides ==
    { << >> } \cup { << e >> : e \in RawOverrideEntries }
    \cup { << e1, e2 >> : e1 \in RawOverrideEntries, e2 \in RawOverrideEntries }

FloorCalls ==
    { [fn |-> "load_aps", floor_overrides |-> o,
       a |-> [name |-> Some(n), host |-> Some(<< "h", "1" >>), floor |-> f]] :
        o \in RawOverrides, n \in RawApNames, f \in RawFloorFields }

\* Records to score: RSSI, idle time and rates absent, at both sides of
\* every threshold and out of range, and an SSID absent, empty, plain or
\* holding one of the words that lower the score.
ScoreRssis == { None } \cup { Some(v) : v \in {-5, 0, 24, 25, 34, 35, 44, 45, 120} }
ScoreIdles == { None } \cup { Some(v) : v \in {-1, 0, 60, 61, 300, 301, 100000} }
ScoreRates == { None, Some(49), Some(50) }
ScoreSsids ==
    { None, Some(<< >>), Some(<< "h", "o", "m", "e" >>), Some(<< "C", "a", "m", "1" >>) }

ScoreRecord(rssi, idle_s, tx_mbps, rx_mbps, ssid) ==
    [rssi |-> rssi, idle_s |-> idle_s, tx_mbps |-> tx_mbps, rx_mbps |-> rx_mbps,
     ssid |-> ssid]

ConfidenceCalls ==
    { [fn |-> "presence_confidence_for_record",
       rec |-> ScoreRecord(r, i, t, x, s)] :
        r \in ScoreRssis, i \in ScoreIdles, t \in ScoreRates, x \in ScoreRates,
        s \in ScoreSsids }

\* Outputs to parse: up to MaxLines lines out of a header in capitals and in
\* small letters, a line that begins with a longer word, a blank line, a
\* line of another command, and rows with a MAC in small letters, in
\* capitals, cut short, and one more station.
MacTextPhone ==
    << "a", "4", ":", "0", "0", ":", "0", "0", ":", "0", "0", ":", "0", "0", ":", "0", "1" >>
MacTextPhoneCapitals ==
    << "A", "4", ":", "0", "0", ":", "0", "0", ":", "0", "0", ":", "0", "0", ":", "0", "1" >>
MacTextTablet ==
    << "b", "8", ":", "0", "0", ":", "0", "0", ":", "0", "0", ":", "0", "0", ":", "0", "2" >>
MacTextCut == << "a", "4", ":", "0", "0", ":", "0", "1" >>

WlanLines ==
    { << << "A", "D", "D", "R" >>, << "A", "I", "D" >>, << "R", "S", "S", "I" >> >>,
      << << "a", "d", "d", "r" >>, << "r", "s", "s", "i" >> >>,
      << << "A", "D", "D", "R", "E", "S", "S" >>, << "R", "S", "S", "I" >> >>,
      << >>,
      << << "w", "i", "f", "i", "0" >> >>,
      << MacTextPhone, << "1" >>, << "3", "0" >> >>,
      << MacTextPhoneCapitals, << "-", "4", "5", "d", "B" >> >>,
      << MacTextCut, << "1" >>, << "2", "0" >> >>,
      << MacTextTablet >> }

WlanOutputs == UNION { [1..n -> WlanLines] : n \in 0..MaxLines }

ParseCalls == { [fn |-> "parse_wlanconfig_list", output |-> o] : o \in WlanOutputs }

\* Answers of two APs about one tracked station in extended mode: on each AP
\* the station is on no interface, on one or on both, with an RSSI absent,
\* 30 or 40 and an idle time absent, 5 or 9.
ExtendedRow(iface, rssi, idle_s) ==
    LET row == Row(iface, MacPhone, rssi)
    IN  IF idle_s = None THEN row
        ELSE [row EXCEPT !.rec = Put(@, "idle_s", idle_s)]

ExtendedRows(iface) ==
    { ExtendedRow(iface, r, i) :
        r \in { None, Some(30), Some(40) }, i \in { None, Some(5), Some(9) } }

ExtendedTables ==
    { << >> } \cup { << r >> : r \in ExtendedRows(WIFI0AP0) \cup ExtendedRows(WIFI1AP0) }
    \cup { << r0, r1 >> : r0 \in ExtendedRows(WIFI0AP0), r1 \in ExtendedRows(WIFI1AP0) }

MergeCalls ==
    { [fn |-> "merge", aps |-> LearnAPs,
       polls |-> << Answer("ok", t1, EmptyDict), Answer("ok", t2, EmptyDict) >>] :
        t1 \in ExtendedTables, t2 \in ExtendedTables }

InitPure ==
    /\ Start(LearnAPs, 1, FALSE, 50, None)
    /\ call \in BestCalls \cup TrimCalls \cup RoundTripCalls \cup FloorCalls
                \cup ConfidenceCalls \cup ParseCalls \cup MergeCalls
    /\ ret = None
    /\ BridgeOff

\* main() reading floor_overrides and one AP entry, floor_from_ap_name on the
\* entry's name, and the record the normaliser builds for a row of that AP
ApplyLoadAps ==
    /\ call.fn = "load_aps"
    /\ ret = None
    /\ \E loaded \in {load_aps(<< call.a >>, floor_overrides(call.floor_overrides, EmptyDict),
                                << >>)} :
           ret' = Some([aps |-> loaded,
                        derived |-> floor_from_ap_name(OrEmpty(call.a.name)),
                        recs |-> [i \in DOMAIN loaded |->
                                    rec2_of(loaded[i], Row(WIFI0AP0, MacPhone, Some(30)),
                                            EmptyDict)]])
    /\ UNCHANGED << loop_vars, call, bridge_vars >>

\* save_seen_devices(seen_map) running to its end on an empty directory, then
\* load_seen_devices() on what it left
ApplyRoundTrip ==
    /\ call.fn = "save_load"
    /\ ret = None
    /\ \E files \in {save_seen_devices(call.seen_map, call.ts,
                                        [store |-> None, tmp |-> None], "ok")} :
           ret' = Some([files |-> files, loaded |-> load_seen_devices(files.store)])
    /\ UNCHANGED << loop_vars, call, bridge_vars >>

ApplyBest ==
    /\ call.fn = "best_record"
    /\ ret = None
    /\ ret' = Some(best_record(call.a, call.b))
    /\ UNCHANGED << loop_vars, call, bridge_vars >>

ApplyTrim ==
    /\ call.fn = "trim_seen"
    /\ ret = None
    /\ ret' = Some(trim_seen(call.seen_map, call.max_entries))
    /\ UNCHANGED << loop_vars, call, bridge_vars >>

ApplyConfidence ==
    /\ call.fn = "presence_confidence_for_record"
    /\ ret = None
    /\ ret' = Some(presence_confidence_for_record(call.rec))
    /\ UNCHANGED << loop_vars, call, bridge_vars >>

ApplyParse ==
    /\ call.fn = "parse_wlanconfig_list"
    /\ ret = None
    /\ ret' = Some(parse_wlanconfig_list(call.output))
    /\ UNCHANGED << loop_vars, call, bridge_vars >>

\* the loop over the APs of a first cycle in extended mode: the global map of
\* the tracked devices
ApplyMerge ==
    /\ call.fn = "merge"
    /\ ret = None
    /\ ret' = Some(poll_aps(call.aps, call.polls, 1, FALSE, TRUE, 1,
                            StartOfPoll(EmptyDict, EmptyDict, EmptyDict)).tracked)
    /\ UNCHANGED << loop_vars, call, bridge_vars >>

NextPure ==
    \/ ApplyBest
    \/ ApplyTrim
    \/ ApplyRoundTrip
    \/ ApplyLoadAps
    \/ ApplyConfidence
    \/ ApplyParse
    \/ ApplyMerge

SpecPure == InitPure /\ [][NextPure]_vars

\* ---------------------------------------------------------------------------
\* The Trakt bridge (trakt_bridge_stremio/app.py): the messages of the Home
\* Assistant websocket, handle_stop and the sent-keys file.  Titles and
\* pictures are texts; durations and positions are whole seconds.
\* ---------------------------------------------------------------------------
ENTITIES == { "media_player.tv" }

\* "progress < WATCHED_THRESHOLD" with pos / duration and the threshold 0.85
\* held as a ratio of integers
Watched(pos, duration) == pos * 100 >= WATCHED_THRESHOLD_PERCENT * duration

\* IMDB_RE = r"(tt\d{7,8})" found at position i of s
imdb_at(s, i) ==
    /\ i + 8 <= Len(s)
    /\ s[i] = "t" /\ s[i + 1] = "t"
    /\ \A j \in 2..8 : IsDigit(s[i + j])

parse_imdb(entity_picture) ==
    IF ~\E i \in DOMAIN entity_picture : imdb_at(entity_picture, i) THEN None
    ELSE LET i == CHOOSE k \in DOMAIN entity_picture :
                    /\ imdb_at(entity_picture, k)
                    /\ \A j \in 1..(k - 1) : ~imdb_at(entity_picture, j)
             n == IF i + 9 <= Len(entity_picture) /\ IsDigit(entity_picture[i + 9])
                  THEN 10 ELSE 9
         IN  Some(SubSeq(entity_picture, i, i + n - 1))

\* the character of s at position i, a blank past its end
CharAt(s, i) == IF i \in DOMAIN s THEN s[i] ELSE " "

\* the number of digits \d{1,2} takes at position i of s
digits_at(s, i) ==
    IF ~IsDigit(CharAt(s, i)) THEN 0 ELSE IF IsDigit(CharAt(s, i + 1)) THEN 2 ELSE 1

\* EP_RE = r"S(\d{1,2})E(\d{1,2})", ignoring case, found at position i of s
episode_at(s, i) ==
    /\ UpperChar(CharAt(s, i)) = "S"
    /\ \E n \in 1..2 :
        /\ n <= digits_at(s, i + 1)
        /\ UpperChar(CharAt(s, i + 1 + n)) = "E"
        /\ IsDigit(CharAt(s, i + 2 + n))

parse_episode(media_title) ==
    IF ~\E i \in DOMAIN media_title : episode_at(media_title, i) THEN None
    ELSE LET i == CHOOSE k \in DOMAIN media_title :
                    /\ episode_at(media_title, k)
                    /\ \A j \in 1..(k - 1) : ~episode_at(media_title, j)
             n == CHOOSE d \in 1..2 :
                    /\ d <= digits_at(media_title, i + 1)
                    /\ UpperChar(CharAt(media_title, i + 1 + d)) = "E"
                    /\ \A d2 \in (d + 1)..2 :
                          ~(d2 <= digits_at(media_title, i + 1)
                            /\ UpperChar(CharAt(media_title, i + 1 + d2)) = "E"
                            /\ IsDigit(CharAt(media_title, i + 2 + d2)))
             e == i + 2 + n
         IN  Some([season |-> digits_value(SubSeq(media_title, i + 1, i + n), 1, 0),
                   episode |-> digits_value(
                       SubSeq(media_title, e, e + digits_at(media_title, e) - 1), 1, 0)])

\* f"{n:02d}" for n in 0..99
TwoDigits(n) == << Digits[(n \div 10) + 1], Digits[(n % 10) + 1] >>

is_stremio(attrs) == Get(attrs, "app_name") = Some("Stremio")

\* (attrs.get(k) or 0.0)
OrZero(o) == IF o = None THEN 0 ELSE Val(o)

\* load_json(SENT_FILE, {}): the default when the file is absent, else the
\* parsed content; json.loads raises on what a broken write left
load_sent(file) ==
    IF file = None THEN [raised |-> FALSE, doc |-> EmptyDict]
    ELSE IF Val(file).complete THEN [raised |-> FALSE, doc |-> Val(file).doc]
    ELSE [raised |-> TRUE, doc |-> EmptyDict]

\* what save_json(SENT_FILE, sent) can end in: the file written; mkdir or
\* the open raising, the file as it was; the write raising after the open
\* has truncated the file; the process killed before the write
SentSaves == { "written", "open_raises", "write_raises", "killed_before_write" }

\* save_json(SENT_FILE, obj): write_text opens the file for writing, which
\* empties it, and writes the text; nothing is written aside and renamed
save_sent(file, obj, save) ==
    IF save = "written" THEN Complete(obj)
    ELSE IF save = "write_raises" THEN Partial(obj)
    ELSE file

\* handle_stop: the sent-keys file it leaves, the request it posted (None
\* when it posted nothing), the key of a submission that Trakt accepted,
\* where it returned and whether an exception left it.  http is what the
\* POST would end in, save what the save_json after it would end in.
handle_stop(entity_id, attrs, sent_path, tokens, http, save) ==
    LET loaded == load_sent(sent_path)
        sent == loaded.doc
        title == strip(OrEmpty(Get(attrs, "media_title")))
        duration == OrZero(Get(attrs, "media_duration"))
        pos == OrZero(Get(attrs, "media_position"))
        imdb == parse_imdb(OrEmpty(Get(attrs, "entity_picture")))
        ep == parse_episode(title)
        key == IF ep = None THEN Val(imdb)
               ELSE Val(imdb) \o << ":", "S" >> \o TwoDigits(Val(ep).season)
                    \o << "E" >> \o TwoDigits(Val(ep).episode)
        body == IF ep = None THEN [movies |-> << [ids |-> [imdb |-> Val(imdb)]] >>]
                ELSE [shows |-> << [ids |-> [imdb |-> Val(imdb)],
                                    seasons |-> << [number |-> Val(ep).season,
                                                    episodes |-> << [number |-> Val(ep).episode] >>] >>] >>]
        access_token == IF tokens = None THEN None ELSE Get(Val(tokens), "access_token")
        entry == [title |-> title, imdb |-> Val(imdb),
                  season |-> IF ep = None THEN None ELSE Some(Val(ep).season),
                  episode |-> IF ep = None THEN None ELSE Some(Val(ep).episode),
                  pos |-> pos, duration |-> duration,
                  entity_id |-> entity_id]
        skip(why) == [sent |-> sent_path, request |-> None, accepted |-> None,
                      outcome |-> why, raised |-> FALSE]
    IN  IF duration <= 0 \/ duration < MIN_DURATION_SECONDS THEN skip("short")
        ELSE IF imdb = None THEN skip("no_imdb")
        ELSE IF ~Watched(pos, duration) THEN skip("unwatched")
        ELSE IF loaded.raised
        THEN [sent |-> sent_path, request |-> None, accepted |-> None,
              outcome |-> "load_raised", raised |-> TRUE]
        ELSE IF key \in DOMAIN sent THEN skip("already_sent")
        ELSE IF ~Truthy(access_token) THEN skip("unauthorized")
        ELSE IF http # "ok"
        THEN [sent |-> sent_path, request |-> Some(body), accepted |-> None,
              outcome |-> "failed", raised |-> FALSE]
        ELSE [sent |-> save_sent(sent_path, Put(sent, key, entry), save),
              request |-> Some(body), accepted |-> Some(key),
              outcome |-> IF save = "written" THEN "sent" ELSE "save_failed",
              raised |-> save # "written"]

\* the attributes of the state heard last are taken for those of the stop
stop_attrs_heard(ev, earlier) ==
    IF earlier # None THEN Val(earlier) ELSE ev.old_attrs

\* "await handle_stop(entity_id, old_attrs)": the attributes the decision is
\* taken from; earlier is what the messages before this one carried
stop_attrs(ev, earlier) == ev.old_attrs

\* the body of "async for msg in ws"
on_message(msg, sent, tokens, earlier, http, save) ==
    LET ignored == [sent |-> sent, request |-> None, accepted |-> None,
                    outcome |-> "ignored", raised |-> FALSE]
    IN  IF msg.type # "event" \/ msg.event_type # "state_changed" THEN ignored
        ELSE IF msg.entity_id \notin ENTITIES THEN ignored
        ELSE IF msg.new_state = None \/ msg.old_state = None THEN ignored
        ELSE IF ~is_stremio(msg.new_attrs) /\ ~is_stremio(msg.old_attrs) THEN ignored
        ELSE IF Val(msg.old_state) = "playing" /\ Val(msg.new_state) # "playing"
        THEN handle_stop(msg.entity_id, stop_attrs(msg, earlier), sent, tokens,
                         http, save)
        ELSE ignored

\* Messages of the websocket
Attrs(app_name, media_title, media_duration, media_position, entity_picture) ==
    [app_name |-> Some(app_name), media_title |-> Some(media_title),
     media_duration |-> Some(media_duration), media_position |-> Some(media_position),
     entity_picture |-> entity_picture]

FilmPicture == Some(<< "/", "i", "m", "g", "/", "t", "t", "1", "2", "3", "4", "5", "6", "7", "/", "p" >>)
FilmDone == Attrs("Stremio", << " ", "F", "i", "l", "m", " " >>, 1200, 1100, FilmPicture)
FilmAtThreshold == Attrs("Stremio", << " ", "F", "i", "l", "m", " " >>, 1200, 1020, FilmPicture)
FilmEarly == Attrs("Stremio", << " ", "F", "i", "l", "m", " " >>, 1200, 100, FilmPicture)
EpisodeDone == Attrs("Stremio", << "S", "h", "o", "w", " ", "s", "0", "1", "E", "2" >>, 1200, 1100, Some(<< "/", "i", "m", "g", "/", "t", "t", "7", "6", "5", "4", "3", "2", "1", "0" >>))
ShortDone == Attrs("Stremio", << " ", "F", "i", "l", "m", " " >>, 300, 299, FilmPicture)
NoPictureDone == Attrs("Stremio", << " ", "F", "i", "l", "m", " " >>, 1200, 1100, None)
OtherAppDone == Attrs("YouTube", << " ", "F", "i", "l", "m", " " >>, 1200, 1100, FilmPicture)

StateChanged(entity_id, old_state, old_attrs, new_state, new_attrs) ==
    [type |-> "event", event_type |-> "state_changed", entity_id |-> entity_id,
     old_state |-> old_state, old_attrs |-> old_attrs,
     new_state |-> new_state, new_attrs |-> new_attrs]

Stop(attrs) ==
    StateChanged("media_player.tv", Some("playing"), attrs, Some("paused"), attrs)

Messages ==
    { Stop(a) : a \in { FilmDone, FilmAtThreshold, FilmEarly, EpisodeDone, ShortDone,
                        NoPictureDone, OtherAppDone } }
    \cup { StateChanged("media_player.tv", Some("playing"), OtherAppDone,
                        Some("idle"), FilmEarly),
           StateChanged("media_player.tv", Some("playing"), FilmEarly,
                        Some("playing"), FilmDone),
           StateChanged("media_player.tv", Some("paused"), FilmDone,
                        Some("playing"), FilmEarly),
           StateChanged("media_player.tv", None, FilmDone, Some("playing"), FilmDone),
           StateChanged("media_player.bedroom", Some("playing"), FilmDone,
                        Some("paused"), FilmDone),
           [Stop(FilmDone) EXCEPT !.type = "result"] }

TokensFiles == { None, Some([access_token |-> Some("token")]) }

HttpResults == { "ok", "error" }

\* how often the bridge is started again
MaxRestarts == 2

InitTrakt ==
    /\ Start(LearnAPs, 1, FALSE, 50, None)
    /\ call = NoCall
    /\ ret = None
    /\ sent_file = None
    /\ tokens_file \in TokensFiles
    /\ heard = None
    /\ stopped = None
    /\ alive = TRUE
    /\ restarts = 0
    /\ posted = EmptyDict

\* one message of the websocket; stopped keeps, next to what the message led
\* to, what it leads to in a bridge that has the same files and has received
\* nothing before.  An exception that leaves handle_stop reaches the
\* "except Exception" of ha_ws_once_failfast, which ends the process, and so
\* does a kill.
Message ==
    /\ alive
    /\ \E msg \in Messages : \E http \in HttpResults : \E save \in SentSaves :
        \E r \in {on_message(msg, sent_file, tokens_file, heard, http, save)} :
            /\ r.accepted = None => save = "written"
            /\ sent_file' = r.sent
            /\ heard' = Some(msg.new_attrs)
            /\ stopped' = Some([msg |-> msg, sent |-> sent_file, earlier |-> heard,
                                request |-> r.request, outcome |-> r.outcome,
                                fresh |-> on_message(msg, sent_file, tokens_file,
                                                     None, http, save).request])
            /\ alive' = ~r.raised
            /\ posted' = IF r.accepted = None THEN posted
                         ELSE Put(posted, Val(r.accepted),
                                  IF Val(r.accepted) \in DOMAIN posted
                                  THEN posted[Val(r.accepted)] + 1 ELSE 1)
    /\ UNCHANGED << loop_vars, call, ret, tokens_file, restarts >>

\* the add-on is started again after the process has ended: the files are
\* as they were left, nothing has been received
Restart ==
    /\ ~alive
    /\ restarts < MaxRestarts
    /\ alive' = TRUE
    /\ restarts' = restarts + 1
    /\ heard' = None
    /\ UNCHANGED << loop_vars, call, ret, sent_file, tokens_file, stopped, posted >>

NextTrakt ==
    \/ Message
    \/ Restart

SpecTrakt == InitTrakt /\ [][NextTrakt]_vars

\* ---------------------------------------------------------------------------
\* What a cycle produced for a device
\* ---------------------------------------------------------------------------
Observed(m) == m \in DOMAIN seen_global_tracked
PubHome(m) == mqtt_state[m] = Some("home") /\ mqtt_attrs[m] # None
PubAway(m) == mqtt_state[m] = Some("not_home") /\ mqtt_attrs[m] # None
NoEmission(m) ==
    mqtt_state[m] = None /\ mqtt_attrs[m] = None /\ notice[m] = NoNotice
\* attribute k of the attributes message of the latest cycle
Attr(m, k) == Get(Val(mqtt_attrs[m]), k)

\* ---------------------------------------------------------------------------
\* C1: with away_after_misses = N >= 1, for a device observed in a cycle where
\* it was not Home before, then unobserved for k cycles, then observed again:
\* the observed cycle publishes home with a home-entry notice; an unobserved
\* cycle with miss count below N publishes nothing; the cycle where the miss
\* count reaches N publishes not_home with a not_home notice; each later
\* unobserved cycle publishes not_home without notice and with a miss count one
\* higher than the cycle before; and after k >= N misses the next observed
\* cycle publishes home with a home-entry notice and misses = 0.  For N = 3 and
\* [seen, miss, miss, miss, miss, seen] from start: cycle 1 home (notice),
\* cycles 2, 3 nothing, cycle 4 not_home (notice, misses 3), cycle 5 not_home
\* (no notice, misses 4), cycle 6 home (notice, misses 0).
\* ---------------------------------------------------------------------------
C1Step ==
    away_after >= 1 =>
    \A m \in TrackedMacs :
        LET seen == m \in DOMAIN seen_global_tracked'
            j == unseen_run'[m]
        IN  /\ (seen /\ prev_home[m] # Some(TRUE)) =>
                   (PubHome(m)' /\ notice'[m].kind = "home")
            /\ (~seen /\ j < away_after) => NoEmission(m)'
            /\ (~seen /\ j = away_after) =>
                   (PubAway(m)' /\ notice'[m].kind = "not_home"
                    /\ Attr(m, "misses")' = Some(away_after))
            /\ (~seen /\ j > away_after) =>
                   (PubAway(m)' /\ notice'[m] = NoNotice
                    /\ Attr(m, "misses")' = Some(j)
                    /\ misses'[m] = misses[m] + 1)
            /\ (seen /\ unseen_run[m] >= away_after) =>
                   (PubHome(m)' /\ notice'[m].kind = "home"
                    /\ Attr(m, "misses")' = Some(0))

C1Example ==
    away_after = 3 =>
    \A m \in TrackedMacs :
        /\ (cycle = 1 /\ Observed(m)) => (PubHome(m) /\ notice[m].kind = "home")
        /\ (cycle \in {2, 3} /\ unseen_run[m] = cycle - 1) => NoEmission(m)
        /\ (cycle = 4 /\ unseen_run[m] = 3) =>
               (PubAway(m) /\ notice[m].kind = "not_home"
                /\ Attr(m, "misses") = Some(3))
        /\ (cycle = 5 /\ unseen_run[m] = 4) =>
               (PubAway(m) /\ notice[m] = NoNotice /\ Attr(m, "misses") = Some(4))
        /\ (cycle = 6 /\ Observed(m) /\ gap[m] = 4) =>
               (PubHome(m) /\ notice[m].kind = "home" /\ Attr(m, "misses") = Some(0))

C1_Hysteresis == [][C1Step]_vars /\ []C1Example

\* cycle 6 of [seen, miss, miss, miss, miss, seen] with N = 3
C1_Witness ==
    /\ away_after = 3 /\ cycle = 6
    /\ Observed(MacPhone) /\ gap[MacPhone] = 4
    /\ notice[MacPhone].kind = "home"

\* ---------------------------------------------------------------------------
\* C2: in every cycle, a device that is observed has miss counter 0 after the
\* cycle, and a device that is not observed has a miss counter exactly one
\* higher than after the previous cycle; the counter is never reset without an
\* observation and never capped: it always equals the number of consecutive
\* latest cycles without an observation.
\* ---------------------------------------------------------------------------
C2Step ==
    \A m \in TrackedMacs :
        IF m \in DOMAIN seen_global_tracked'
        THEN misses'[m] = 0
        ELSE misses'[m] = misses[m] + 1

C2_MissCounter ==
    [][C2Step]_vars /\ [](\A m \in TrackedMacs : misses[m] = unseen_run[m])

\* a device seen earlier whose counter has grown past the threshold
C2_Witness ==
    /\ last_seen[MacPhone] > 0
    /\ ~Observed(MacPhone)
    /\ misses[MacPhone] >= away_after + 2

\* ---------------------------------------------------------------------------
\* C3: not_home is published for a device in a cycle only if the device was
\* not observed in that cycle nor in any of the away_after_misses - 1 cycles
\* immediately before it; a run of unobserved cycles shorter than
\* away_after_misses never produces not_home.
\* ---------------------------------------------------------------------------
C3_AwayOnlyAfterDebounce ==
    \A m \in TrackedMacs :
        mqtt_state[m] = Some("not_home") =>
            (~Observed(m) /\ unseen_run[m] >= away_after)

\* not_home for a device that was home, on the last cycle of the debounce
C3_Witness ==
    /\ away_after >= 2
    /\ last_seen[MacPhone] > 0
    /\ mqtt_state[MacPhone] = Some("not_home")
    /\ unseen_run[MacPhone] = away_after

\* ---------------------------------------------------------------------------
\* C4: in a cycle where a device is not observed and its miss count is below
\* away_after_misses, no state message, no attributes message and no notice
\* is produced for it, and nothing of its state changes except the miss
\* counter.
\* ---------------------------------------------------------------------------
C4Step ==
    \A m \in TrackedMacs :
        (m \notin DOMAIN seen_global_tracked' /\ misses'[m] < away_after) =>
            /\ NoEmission(m)'
            /\ prev_home'[m] = prev_home[m]
            /\ last_seen'[m] = last_seen[m]
            /\ last_seen_iso'[m] = last_seen_iso[m]
            /\ prev_ap'[m] = prev_ap[m]
            /\ prev_ap_host'[m] = prev_ap_host[m]
            /\ prev_floor'[m] = prev_floor[m]
            /\ prev_floor_attr'[m] = prev_floor_attr[m]
            /\ last_floor_change'[m] = last_floor_change[m]
            /\ prev_ip'[m] = prev_ip[m]
            /\ roam_count'[m] = roam_count[m]

C4_DebounceFrame == [][C4Step]_vars

\* a device that was home, inside the debounce window
C4_Witness ==
    /\ ~Observed(MacPhone)
    /\ misses[MacPhone] >= 1
    /\ misses[MacPhone] < away_after
    /\ prev_home[MacPhone] = Some(TRUE)
    /\ prev_ip[MacPhone] # None

\* ---------------------------------------------------------------------------
\* C5: in every cycle where a device is not observed and its miss count is at
\* least away_after_misses, not_home is published with an attributes message
\* whose ap_name, ap_host, floor, prev_floor, last_floor_change, roam_count
\* and last-seen fields equal those of the device's most recent observation,
\* and whose iface, band, rssi and ip are null.
\* ---------------------------------------------------------------------------
C5_AwayRepublished ==
    \A m \in TrackedMacs :
        (cycle >= 1 /\ ~Observed(m) /\ misses[m] >= away_after) =>
            /\ PubAway(m)
            /\ \A k \in {"iface", "band", "rssi", "ip"} :
                   k \in DOMAIN Val(mqtt_attrs[m]) /\ Attr(m, k) = None
            /\ last_obs[m] # None =>
                   \A k \in ObsKeys : Attr(m, k) = Val(last_obs[m])[k]

\* a later cycle of an away run, of a device that roamed while it was home
C5_Witness ==
    /\ ~Observed(MacPhone)
    /\ misses[MacPhone] > away_after
    /\ away_after >= 1
    /\ last_obs[MacPhone] # None
    /\ roam_count[MacPhone] >= 1
    /\ PubAway(MacPhone)

\* ---------------------------------------------------------------------------
\* C6: in every cycle where a device's MAC is in the merged tracked map, home
\* and an attributes message are published for it, whatever its previous
\* state and miss count, and the published miss count is 0.
\* ---------------------------------------------------------------------------
C6_HomeEveryCycle ==
    \A m \in TrackedMacs :
        Observed(m) =>
            (PubHome(m) /\ Attr(m, "misses") = Some(0) /\ misses[m] = 0)

\* home published again, without notice, in the cycle after a home cycle
C6_Witness ==
    /\ cycle >= 2
    /\ Observed(MacPhone)
    /\ gap[MacPhone] = 0
    /\ notice[MacPhone] = NoNotice
    /\ PubHome(MacPhone)

\* ---------------------------------------------------------------------------
\* C7: the not_home notice is produced exactly on the cycles where not_home is
\* published and the previous recorded state was Home or unknown; in a run of
\* consecutive away cycles it is produced once, on the first; a device never
\* observed since start gets it exactly once, on the cycle its miss count
\* first reaches away_after_misses (the first cycle when that is 0).
\* ---------------------------------------------------------------------------
C7Step ==
    \A m \in TrackedMacs :
        /\ (notice'[m].kind = "not_home") <=>
               (mqtt_state'[m] = Some("not_home") /\ prev_home[m] # Some(FALSE))
        /\ (mqtt_state'[m] = Some("not_home") /\ mqtt_state[m] = Some("not_home"))
               => notice'[m] = NoNotice
        /\ (mqtt_state'[m] = Some("not_home") /\ mqtt_state[m] # Some("not_home"))
               => notice'[m].kind = "not_home"

C7NeverObserved ==
    \A m \in TrackedMacs :
        (cycle >= 1 /\ unseen_run[m] = cycle) =>
            ((notice[m].kind = "not_home") <=>
                 (cycle = IF away_after >= 1 THEN away_after ELSE 1))

C7_AwayNoticeOnEdge == [][C7Step]_vars /\ []C7NeverObserved

\* a not_home notice for the phone in a cycle where the never-seen tablet is re-published not_home without one
C7_Witness ==
    /\ last_seen[MacPhone] > 0
    /\ PubAway(MacPhone) /\ notice[MacPhone].kind = "not_home"
    /\ PubAway(MacTablet) /\ notice[MacTablet] = NoNotice

\* ---------------------------------------------------------------------------
\* C8 (as stated): in a cycle where a device is observed, one notice at most
\* is produced, by the first test that holds: (1) the previous state was not
\* Home: home notice; (2) the AP changed: moved notice; (3) the floor changed:
\* floor notice; (4) the resolved IPv4 changed: ip notice; else none.
\* ---------------------------------------------------------------------------
C8StepAsStated ==
    \A m \in TrackedMacs :
        m \in DOMAIN seen_global_tracked' =>
            notice'[m].kind =
                IF prev_home[m] # Some(TRUE) THEN "home"
                ELSE IF Attr(m, "ap_name")' # prev_ap[m] THEN "moved"
                ELSE IF Attr(m, "floor")' # prev_floor[m] THEN "floor"
                ELSE IF Attr(m, "ip")' # prev_ip[m] THEN "ip"
                ELSE "none"

C8_AsStated == [][C8StepAsStated]_vars

\* ---------------------------------------------------------------------------
\* C8 (amended): as C8, with test (4) reading: the device has a resolved IPv4
\* in this cycle and it differs from the previously recorded one.  A cycle in
\* which the device's IPv4 is no longer resolved produces no ip notice.
\* ---------------------------------------------------------------------------
C8Step ==
    \A m \in TrackedMacs :
        m \in DOMAIN seen_global_tracked' =>
            notice'[m].kind =
                IF prev_home[m] # Some(TRUE) THEN "home"
                ELSE IF Attr(m, "ap_name")' # prev_ap[m] THEN "moved"
                ELSE IF Attr(m, "floor")' # prev_floor[m] THEN "floor"
                ELSE IF Attr(m, "ip")' # None /\ Attr(m, "ip")' # prev_ip[m] THEN "ip"
                ELSE "none"

C8_NoticePriority == [][C8Step]_vars

\* a floor notice: same AP name, other floor
C8_Witness ==
    /\ Observed(MacPhone)
    /\ notice[MacPhone].kind = "floor"

\* ---------------------------------------------------------------------------
\* C9 (as stated): roam_count increments by one exactly in the cycles where
\* the device is observed, was observed in the immediately prior cycle and its
\* AP differs from that cycle's AP; it changes in no other cycle.
\* ---------------------------------------------------------------------------
C9StepAsStated ==
    \A m \in TrackedMacs :
        roam_count'[m] =
            IF /\ m \in DOMAIN seen_global_tracked'
               /\ Observed(m)
               /\ Attr(m, "ap_name")' # Attr(m, "ap_name")
            THEN roam_count[m] + 1
            ELSE roam_count[m]

C9Step ==
    \A m \in TrackedMacs :
        roam_count'[m] =
            IF /\ m \in DOMAIN seen_global_tracked'
               /\ last_obs[m] # None
               /\ Attr(m, "ap_name")' # Val(last_obs[m])["ap_name"]
            THEN roam_count[m] + 1
            ELSE roam_count[m]

C10Step ==
    \A m \in TrackedMacs : roam_count'[m] \in {roam_count[m], roam_count[m] + 1}

C10State ==
    \A m \in TrackedMacs :
        /\ cycle = 0 => roam_count[m] = 0
        /\ mqtt_attrs[m] # None => Attr(m, "roam_count") = Some(roam_count[m])

C10_RoamCountPublished == [][C10Step]_vars /\ []C10State

\* the home cycle of a second roam
C10_Witness ==
    /\ Observed(MacPhone)
    /\ notice[MacPhone].kind = "moved"
    /\ roam_count[MacPhone] = 2
    /\ Attr(MacPhone, "roam_count") = Some(2)

\* ---------------------------------------------------------------------------
\* C11: in a cycle where a device is observed, if a previously recorded floor
\* exists and the resolved floor differs from it, the prev_floor attribute
\* becomes the previously recorded floor and last_floor_change becomes this
\* cycle's observation timestamp, both in the attributes published in that
\* same cycle; if the floor is unchanged or no previous floor exists,
\* prev_floor and last_floor_change keep their values.
\* ---------------------------------------------------------------------------
C11Step ==
    \A m \in TrackedMacs :
        m \in DOMAIN seen_global_tracked' =>
            LET floor_now == Get(seen_global_tracked'[m], "floor")
                pub == Val(mqtt_attrs'[m])
            IN  /\ mqtt_attrs'[m] # None
                /\ Get(pub, "floor") = floor_now
                /\ Get(pub, "prev_floor") = prev_floor_attr'[m]
                /\ Get(pub, "last_floor_change") = last_floor_change'[m]
                /\ IF prev_floor[m] # None /\ floor_now # prev_floor[m]
                   THEN /\ prev_floor_attr'[m] = prev_floor[m]
                        /\ last_floor_change'[m] = Some(Iso(now'))
                        /\ last_floor_change'[m] = Get(pub, "last_seen_iso")
                   ELSE /\ prev_floor_attr'[m] = prev_floor_attr[m]
                        /\ last_floor_change'[m] = last_floor_change[m]

C11_FloorChange == [][C11Step]_vars

\* a second floor change: the attributes name the floor left in this cycle,
\* not the one left at the first change, and carry this cycle's timestamp
C11_Witness ==
    /\ Observed(MacPhone)
    /\ Attr(MacPhone, "floor") = Some("a")
    /\ Attr(MacPhone, "prev_floor") = Some("b")
    /\ Attr(MacPhone, "last_floor_change") = Some(Iso(now))
    /\ gap[MacPhone] = 0
    /\ cycle >= 3

\* ---------------------------------------------------------------------------
\* C12: for all records a and b, whose RSSI and idle time are each absent or an
\* integer, best_record(a, b) returns one of its two arguments: if exactly one
\* has RSSI, that one; else if both have RSSI and they differ, the one with
\* the higher RSSI; else if exactly one has idle time, that one; else if both
\* have idle time and they differ, the one with the lower idle time; else a.
\* On a full tie best_record(a, b) is a and best_record(b, a) is b.
\* ---------------------------------------------------------------------------
C12HasRssi(x) == Get(x, "rssi") # None
C12HasIdle(x) == Get(x, "idle_s") # None

C12FullTie(a, b) ==
    /\ Get(a, "rssi") = Get(b, "rssi")
    /\ Get(a, "idle_s") = Get(b, "idle_s")

C12Chosen(a, b) ==
    IF C12HasRssi(a) # C12HasRssi(b)
    THEN (IF C12HasRssi(a) THEN a ELSE b)
    ELSE IF C12HasRssi(a) /\ Val(Get(a, "rssi")) # Val(Get(b, "rssi"))
    THEN (IF Val(Get(a, "rssi")) > Val(Get(b, "rssi")) THEN a ELSE b)
    ELSE IF C12HasIdle(a) # C12HasIdle(b)
    THEN (IF C12HasIdle(a) THEN a ELSE b)
    ELSE IF C12HasIdle(a) /\ Val(Get(a, "idle_s")) # Val(Get(b, "idle_s"))
    THEN (IF Val(Get(a, "idle_s")) < Val(Get(b, "idle_s")) THEN a ELSE b)
    ELSE a

C12_BestRecord ==
    (call.fn = "best_record" /\ ret # None) =>
        /\ Val(ret) \in {call.a, call.b}
        /\ Val(ret) = C12Chosen(call.a, call.b)
        /\ C12FullTie(call.a, call.b) =>
                /\ Val(ret) = call.a
                /\ best_record(call.b, call.a) = call.b

\* a full tie of two different records, both with RSSI and idle time
C12_Witness ==
    /\ call.fn = "best_record"
    /\ ret = Some(call.a)
    /\ call.a # call.b
    /\ C12HasRssi(call.a) /\ C12HasIdle(call.a)
    /\ C12FullTie(call.a, call.b)

\* ---------------------------------------------------------------------------
\* MACs the claims about the filters speak of
\* ---------------------------------------------------------------------------
AllMacs ==
    TrackedMacs \cup GuestMacs \cup {MacGuestRandom, MacMulticast, MacBroadcast}

\* the MACs of the entries upserted in the latest cycle
UpsertedMacs == {ItemMac(upserts[i]) : i \in DOMAIN upserts}

\* every per-AP pair of maps (seen_ap_tracked, seen_ap_unknown) an AP's pass
\* can build at the site with unknown devices
per_ap_maps ==
    {seen_ap(LearnAPs[i], out.rows, out.neigh, learn, NotExtended, NoSightings) :
        i \in DOMAIN LearnAPs, out \in MixedPollOutcomes, learn \in BOOLEAN}

\* ---------------------------------------------------------------------------
\* C13: a multicast or broadcast MAC (low bit of the first octet set, or
\* ff:ff:ff:ff:ff:ff) sighted on any interface of any AP never reaches a per-AP
\* map or the global tracked map and is never upserted into the learning
\* store; a tracked device configured with such a MAC is never published home.
\* ---------------------------------------------------------------------------
C13Multicast(m) == m % 2 = 1 \/ m = MacBroadcast

C13_MulticastDropped ==
    \A m \in AllMacs :
        C13Multicast(m) =>
            /\ \A s \in per_ap_maps :
                    m \notin (DOMAIN s.tracked) \cup (DOMAIN s.unknown)
            /\ m \notin DOMAIN seen_global_tracked
            /\ m \notin UpsertedMacs
            /\ m \notin Keys(seen_unknown)
            /\ m \in TrackedMacs =>
                    /\ mqtt_state[m] # Some("home")
                    /\ prev_home[m] # Some(TRUE)

\* a cycle with learning on in which a multicast MAC, the broadcast MAC and
\* the multicast MAC of a configured device were all in the tables, while a
\* guest was upserted and another device was published home
C13_Witness ==
    /\ learn_mode
    /\ {MacMulticast, MacBroadcast, MacBogus} \subseteq sighted
    /\ UpsertedMacs # {}
    /\ PubHome(MacWatch)
    /\ PubAway(MacBogus)

\* ---------------------------------------------------------------------------
\* C14: a sighting of a tracked device whose MAC is locally administered (bit
\* 0x02 of the first octet set) is discarded unless the device has
\* allow_randomized: without the flag the device is never counted as observed
\* and never published home, whatever the APs report; with the flag it is
\* treated like any other tracked device, observed exactly in the cycles in
\* which an AP polled with success reports it, and then published home.
\* ---------------------------------------------------------------------------
C14LocallyAdministered(m) == (m \div 2) % 2 = 1

C14_RandomizedTracked ==
    \A m \in TrackedMacs :
        IF C14LocallyAdministered(m) /\ ~device_by_mac[m].allow_randomized
        THEN /\ ~Observed(m)
             /\ mqtt_state[m] # Some("home")
             /\ prev_home[m] # Some(TRUE)
             /\ last_seen[m] = 0
             /\ misses[m] = cycle
        ELSE ~C13Multicast(m) =>
                /\ Observed(m) <=> m \in sighted
                /\ Observed(m) =>
                        /\ PubHome(m)
                        /\ misses[m] = 0
                        /\ last_seen[m] = now
                        /\ Attr(m, "mac") = Some(m)

\* one cycle's tables hold both locally administered devices: the one with
\* the flag is published home, the one without it is published not_home
C14_Witness ==
    /\ {MacWatch, MacTablet} \subseteq sighted
    /\ PubHome(MacWatch)
    /\ Attr(MacWatch, "ap_name") = Some("ap_b")
    /\ ~Observed(MacTablet)
    /\ PubAway(MacTablet)

\* ---------------------------------------------------------------------------
\* C15: with learning enabled, the MACs upserted into the learning store in a
\* cycle are exactly the MACs sighted in that cycle, on any AP polled with
\* success, that are not tracked, not locally administered and not multicast
\* or broadcast; each is upserted once, with the last-seen timestamp of the
\* current cycle.  A tracked MAC is never upserted, also when its sighting was
\* discarded as randomized.  With learning disabled nothing is ever upserted
\* and no file is written.
\* ---------------------------------------------------------------------------
C15Learnable(m) ==
    /\ m \notin TrackedMacs
    /\ ~C14LocallyAdministered(m)
    /\ ~C13Multicast(m)

C15State ==
    /\ learn_mode =>
        /\ UpsertedMacs = {m \in sighted : C15Learnable(m)}
        /\ Len(upserts) = Cardinality(UpsertedMacs)
        /\ \A i \in DOMAIN upserts :
                /\ Get(upserts[i], "last_seen_ts") = Some(now)
                /\ Get(upserts[i], "last_seen_iso") = Some(Iso(now))
    /\ \A m \in TrackedMacs : m \notin UpsertedMacs /\ m \notin Keys(seen_unknown)
    /\ ~learn_mode =>
        /\ upserts = << >>
        /\ seen_unknown = << >>
        /\ trim_pass = None
        /\ flush = "none"

C15Step ==
    ~learn_mode => store_file' = store_file /\ tmp_file' = tmp_file

C15_UpsertedExactly == []C15State /\ [][C15Step]_vars

\* both APs answer: two guests are upserted (one of them already known from
\* the file and upserted again), while the tables also hold a locally
\* administered guest, a multicast MAC, the broadcast MAC and three tracked
\* MACs, one of them discarded as randomized
C15_Witness ==
    /\ learn_mode
    /\ sighted = {MacGuestA, MacGuestB, MacGuestRandom, MacMulticast,
                  MacBroadcast, MacWatch, MacTablet, MacBogus}
    /\ UpsertedMacs = {MacGuestA, MacGuestB}
    /\ cycle = 2
    /\ MacGuestC \in Keys(seen_unknown)

\* ---------------------------------------------------------------------------
\* C16: immediately after every trim pass the learning store holds at most
\* learn_max_entries entries, and none when learn_max_entries <= 0, whatever
\* the store held before the pass.
\* ---------------------------------------------------------------------------
C16_TrimBound ==
    trim_pass # None =>
        /\ seen_unknown = Val(trim_pass).after
        /\ Cardinality(Keys(seen_unknown)) = Len(seen_unknown)
        /\ IF learn_max_entries <= 0
           THEN seen_unknown = << >>
           ELSE Len(seen_unknown) <= learn_max_entries

\* the first pass over a store loaded with more entries than
\* learn_max_entries: three before the pass, two after it
C16_Witness ==
    /\ trim_pass # None
    /\ learn_max_entries = 2
    /\ Len(Val(trim_pass).before) = 3
    /\ Len(seen_unknown) = 2
    /\ cycle = 1

\* ---------------------------------------------------------------------------
\* C17: trimming a store of n entries to max > 0 keeps exactly min(n, max) of
\* its entries and evicts the entries with the oldest last_seen_ts first: the
\* last_seen_ts of every kept entry is greater than or equal to that of every
\* evicted entry.  For n > max entries with distinct last_seen_ts, exactly max
\* remain and they are the max most recent ones.
\* ---------------------------------------------------------------------------
C17Entries(seen_map) == {seen_map[i] : i \in DOMAIN seen_map}

C17Ts(item) == Val(item["last_seen_ts"])

C17DistinctTs(seen_map) ==
    \A i, j \in DOMAIN seen_map : C17Ts(seen_map[i]) = C17Ts(seen_map[j]) => i = j

\* the entries with fewer than k entries more recent than them
C17MostRecent(seen_map, k) ==
    {x \in C17Entries(seen_map) :
        Cardinality({y \in C17Entries(seen_map) : C17Ts(y) > C17Ts(x)}) < k}

C17_TrimKeepsMostRecent ==
    (call.fn = "trim_seen" /\ ret # None /\ call.max_entries > 0) =>
        LET n == Len(call.seen_map)
            max == call.max_entries
            kept == C17Entries(Val(ret))
            evicted == C17Entries(call.seen_map) \ kept
        IN  /\ kept \subseteq C17Entries(call.seen_map)
            /\ Len(Val(ret)) = (IF n < max THEN n ELSE max)
            /\ Cardinality(kept) = Len(Val(ret))
            /\ \A k \in kept : \A e \in evicted : C17Ts(k) >= C17Ts(e)
            /\ (n > max /\ C17DistinctTs(call.seen_map)) =>
                    /\ Cardinality(kept) = max
                    /\ kept = C17MostRecent(call.seen_map, max)

\* three entries with distinct timestamps, the oldest one first in the dict,
\* trimmed to two
C17_Witness ==
    /\ call.fn = "trim_seen"
    /\ ret # None
    /\ call.max_entries = 2
    /\ Len(call.seen_map) = 3
    /\ C17DistinctTs(call.seen_map)
    /\ C17Ts(call.seen_map[1]) = 0
    /\ Len(Val(ret)) = 2
    /\ call.seen_map[1] \notin C17Entries(Val(ret))

\* ---------------------------------------------------------------------------
\* C18: the learning store file is written in a cycle only if the store was
\* marked dirty in that cycle, which happens exactly when an upsert added a MAC
\* that was not in the store, an upsert gave an IPv4 to an entry that had
\* none, or the trim pass changed the number of entries.
\* As stated, a cycle whose upserts only refresh existing entries writes
\* nothing; as the code does it, such a cycle writes nothing unless its trim
\* pass changed the number of entries.
\* ---------------------------------------------------------------------------
C18AddedNew ==
    \E i \in DOMAIN upserts' : ItemMac(upserts'[i]) \notin Keys(seen_unknown)

C18GaveIp ==
    \E i \in DOMAIN upserts' :
        /\ ItemMac(upserts'[i]) \in Keys(seen_unknown)
        /\ ~Truthy(Get(Val(Lookup(seen_unknown, ItemMac(upserts'[i]))), "ip"))
        /\ Truthy(Get(upserts'[i], "ip"))

C18TrimChanged ==
    /\ trim_pass' # None
    /\ Len(Val(trim_pass').before) # Len(Val(trim_pass').after)

C18RefreshOnly == upserts' # << >> /\ ~C18AddedNew /\ ~C18GaveIp

C18Written == flush' # "none"

C18FilesKept == store_file' = store_file /\ tmp_file' = tmp_file

C18StepAsStated ==
    /\ C18Written => (C18AddedNew \/ C18GaveIp \/ C18TrimChanged)
    /\ C18RefreshOnly => (~C18Written /\ C18FilesKept)

C18_AsStated == [][C18StepAsStated]_vars

C18Step ==
    /\ C18Written <=> (C18AddedNew \/ C18GaveIp \/ C18TrimChanged)
    /\ ~C18Written => C18FilesKept
    /\ (C18RefreshOnly /\ ~C18TrimChanged) => (~C18Written /\ C18FilesKept)

C18_WrittenOnlyWhenDirty == [][C18Step]_vars

\* a cycle that upserted a guest already in the store, with a new timestamp,
\* and wrote nothing: the file still holds the guest's earlier entry
C18_Witness ==
    /\ learn_mode
    /\ UpsertedMacs = {MacGuestA}
    /\ flush = "none"
    /\ Lookup(seen_unknown, MacGuestA) = Some(upserts[1])
    /\ store_file # None
    /\ Val(store_file).complete
    /\ \E i \in DOMAIN Val(store_file).doc.seen :
            /\ ItemMac(Val(store_file).doc.seen[i]) = MacGuestA
            /\ ItemTs(Val(store_file).doc.seen[i]) < now

\* ---------------------------------------------------------------------------
\* C19: at every point during and after a flush of the learning store, also
\* when the write fails or the process stops part-way, the store file holds
\* either the complete previous document or the complete new document: the new
\* content is written to a temporary file, and only a single atomic replace
\* makes it the store file.
\* ---------------------------------------------------------------------------
C19NewDocument ==
    Complete([updated_at |-> Iso(now'), seen |-> sort_desc(seen_unknown', << >>)])

C19Step ==
    /\ store_file' \in {store_file, C19NewDocument}
    /\ flush' # "ok" => store_file' = store_file
    /\ flush' = "ok" => (store_file' = C19NewDocument /\ tmp_file' = None)
    /\ flush' \in {"dump_raises", "killed_in_dump"} =>
            (tmp_file' # None /\ ~Val(tmp_file').complete)
    /\ flush' \in {"replace_raises", "killed_before_replace"} =>
            tmp_file' = C19NewDocument

C19State == store_file # None => Val(store_file).complete

C19_StoreFileAtomic == [][C19Step]_vars /\ []C19State

\* the process was stopped while dumping the second document: the temporary
\* file holds a part of it, the store file the whole first document
C19_Witness ==
    /\ save_log = << "ok", "killed_in_dump" >>
    /\ ~running
    /\ tmp_file # None
    /\ ~Val(tmp_file).complete
    /\ store_file # None
    /\ Val(store_file).complete
    /\ Val(store_file).doc # Val(tmp_file).doc
    /\ Val(store_file).doc.seen # << >>

\* ---------------------------------------------------------------------------
\* C20: if writing the learning store fails, the failure is not fatal (the
\* cycle completes and the loop continues), the store in memory is left
\* exactly as it was before the write attempt, and the write is retried at the
\* next dirty flush: the next cycle that marks the store dirty attempts the
\* write again, with the whole store.
\* ---------------------------------------------------------------------------
C20FailedBefore ==
    save_log # << >> /\ save_log[Len(save_log)] \in SaveRaises

C20Step ==
    /\ flush' \in SaveRaises =>
        /\ running'
        /\ cycle' = cycle + 1
        /\ trim_pass' # None
        /\ seen_unknown' = Val(trim_pass').after
        /\ store_file' = store_file
    /\ (C20FailedBefore /\ (C18AddedNew \/ C18GaveIp \/ C18TrimChanged)) =>
        /\ flush' # "none"
        /\ flush' = "ok" => store_file' = C19NewDocument

C20State ==
    (C20FailedBefore /\ cycle < MaxLearnCycles) => (running /\ ENABLED CycleMixed)

C20_SaveFailureNotFatal == [][C20Step]_vars /\ []C20State

\* the first write failed and a later cycle, which learned another guest,
\* wrote the whole store, the entry of the failed write included
C20_Witness ==
    /\ Len(save_log) = 2
    /\ save_log[1] \in SaveRaises
    /\ save_log[2] = "ok"
    /\ flush = "ok"
    /\ running
    /\ \E i \in DOMAIN seen_unknown : ItemTs(seen_unknown[i]) < now
    /\ store_file = Complete([updated_at |-> Iso(now),
                              seen |-> sort_desc(seen_unknown, << >>)])

\* ---------------------------------------------------------------------------
\* C21  Writing the learning store and reading it back gives a store with the
\* same set of MACs and, for each MAC, the same entry (every field equal), for
\* every store whose entries carry valid MACs; and the written list is
\* ordered by last_seen_ts descending.
\* ---------------------------------------------------------------------------
C21Written == Val(Val(ret).files.store).doc.seen

C21SortedDesc(items) ==
    \A i, j \in DOMAIN items : i < j => ItemTs(items[i]) >= ItemTs(items[j])

C21SameEntries(a, b) ==
    /\ Keys(a) = Keys(b)
    /\ Len(a) = Len(b)
    /\ \A mac \in Keys(a) : Lookup(a, mac) = Lookup(b, mac)

C21_RoundTrip ==
    (call.fn = "save_load" /\ ret # None) =>
        /\ Val(ret).files.store # None
        /\ Val(Val(ret).files.store).complete
        /\ Val(ret).files.tmp = None
        /\ C21SortedDesc(C21Written)
        /\ C21SameEntries(C21Written, call.seen_map)
        /\ C21SameEntries(Val(ret).loaded, call.seen_map)

\* three entries, one spelled in capitals, written in another order than the
\* store holds them
C21_Witness ==
    /\ call.fn = "save_load"
    /\ ret # None
    /\ Len(call.seen_map) = 3
    /\ \E i \in DOMAIN call.seen_map : ItemMac(call.seen_map[i]) # ItemKey(call.seen_map[i])
    /\ Val(ret).loaded # call.seen_map
    /\ Len(Val(ret).loaded) = 3

\* ---------------------------------------------------------------------------
\* C22  A failure while polling one AP (rc # 0, timeout, or an exception at
\* any step of its processing) does not abort the cycle: every AP of the list
\* is still polled, the sightings of every AP that did not fail reach the
\* merged maps, a failed AP contributes no sighting to the tracked or the
\* unknown map, and the miss/publish phase runs for every device.
\* ---------------------------------------------------------------------------
\* the MACs in the association table of the AP of log entry e
C22RowMacs(e) == {e.out.rows[k].mac : k \in DOMAIN e.out.rows}

\* the hosts of the APs that did not fail and have mac in their table
C22Sources(log, mac) ==
    {aps[i].host : i \in {j \in DOMAIN log : ~Failed(log[j]) /\ mac \in C22RowMacs(log[j])}}

\* the MACs of a tracked device no filter drops, and of the guests learned
C22Tracked == {m \in TrackedMacs : ~is_multicast_or_broadcast(m) /\ ~is_randomized_mac(m)}
C22Guests == {MacGuestA, MacGuestB, MacGuestC}

C22Step ==
    LET log == polled'
    IN  /\ cycle' = cycle + 1
        /\ DOMAIN log = DOMAIN aps
        /\ \A m \in C22Tracked :
            /\ (m \in DOMAIN seen_global_tracked') <=> (C22Sources(log, m) # {})
            /\ m \in DOMAIN seen_global_tracked' =>
                    Val(seen_global_tracked'[m]["ap_host"]) \in C22Sources(log, m)
        /\ \A g \in C22Guests :
            /\ (g \in {ItemMac(upserts'[i]) : i \in DOMAIN upserts'})
                    <=> (C22Sources(log, g) # {})
            /\ \A i \in DOMAIN upserts' :
                    ItemMac(upserts'[i]) = g =>
                        Val(upserts'[i]["ap_host"]) \in C22Sources(log, g)
        /\ \A m \in TrackedMacs :
            /\ misses'[m] = IF m \in DOMAIN seen_global_tracked' THEN 0 ELSE misses[m] + 1
            /\ m \in DOMAIN seen_global_tracked' => PubHome(m)'
            /\ (m \notin DOMAIN seen_global_tracked' /\ misses'[m] >= away_after) => PubAway(m)'

C22_FailureIsolated == [][C22Step]_vars

\* the first AP failed with the phone and a guest in its table, the second
\* answered with both: they are home and learned through the second
C22_Witness ==
    /\ cycle >= 1
    /\ Len(polled) = 2
    /\ polled[1].out.status = "exception"
    /\ MacPhone \in C22RowMacs(polled[1])
    /\ ~Failed(polled[2])
    /\ MacPhone \in C22RowMacs(polled[2])
    /\ PubHome(MacPhone)
    /\ Attr(MacPhone, "ap_host") = Some("h2")
    /\ \E i \in DOMAIN upserts :
            ItemMac(upserts[i]) = MacGuestA /\ upserts[i]["ap_host"] = Some("h2")

\* ---------------------------------------------------------------------------
\* C27  A failed AP counts like an AP with no device on it: when in each of
\* away_after_misses consecutive cycles every AP failed or had no row for a
\* tracked device, the device is published not_home in the last of these
\* cycles (and in every such cycle after it), also when it was home before
\* and is still in the table of a failing AP.
\* ---------------------------------------------------------------------------
C27_FailedApCountsAsMiss ==
    \A m \in TrackedMacs :
        (cycle >= 1 /\ quiet_run[m] >= away_after) =>
            /\ PubAway(m)
            /\ misses[m] >= quiet_run[m]
            /\ ~Observed(m)

\* the phone was home, then for away_after = 2 cycles no AP that answered had
\* it, and in the second of them it is in the table of an AP that failed
C27_Witness ==
    /\ away_after = 2
    /\ quiet_run[MacPhone] = 2
    /\ cycle = 3
    /\ last_seen[MacPhone] > 0
    /\ PubAway(MacPhone)
    /\ \E i \in DOMAIN polled :
            /\ Failed(polled[i])
            /\ \E k \in DOMAIN polled[i].out.rows : polled[i].out.rows[k].mac = MacPhone

\* ---------------------------------------------------------------------------
\* C23  The floor label of an AP is the first non-empty of: the floor of the
\* override entry whose ap_name equals the AP's name, the AP's own floor
\* field, the AP name without a leading "ap_" (in any letter case), the AP
\* name, and "unknown" for an empty name; an override always wins over the
\* floor field; and the label put on the AP's records is that label.  Names
\* and floors are taken without the blanks around them.
\* ---------------------------------------------------------------------------
C23Name == strip(OrEmpty(call.a.name))

C23Matching ==
    {i \in DOMAIN call.floor_overrides :
        strip(OrEmpty(call.floor_overrides[i].ap_name)) = C23Name}

C23OverrideFloor ==
    IF C23Matching = {} THEN << >>
    ELSE strip(OrEmpty(call.floor_overrides[CHOOSE i \in C23Matching : TRUE].floor))

C23WithoutPrefix ==
    IF Len(C23Name) >= 3 /\ LowerText(SubSeq(C23Name, 1, 3)) = << "a", "p", "_" >>
    THEN strip(SubSeq(C23Name, 4, Len(C23Name))) ELSE << >>

C23FirstNonEmpty(cands) ==
    cands[CHOOSE i \in DOMAIN cands :
            cands[i] # << >> /\ \A j \in 1..(i - 1) : cands[j] = << >>]

C23Derived == C23FirstNonEmpty(<< C23WithoutPrefix, C23Name, UnknownFloor >>)

C23Label ==
    C23FirstNonEmpty(<< C23OverrideFloor, strip(OrEmpty(call.a.floor)), C23Derived >>)

C23_FloorResolution ==
    (call.fn = "load_aps" /\ ret # None /\ Cardinality(C23Matching) <= 1) =>
        /\ Val(ret).derived = C23Derived
        /\ Len(Val(ret).aps) = IF C23Name = << >> THEN 0 ELSE 1
        /\ \A i \in DOMAIN Val(ret).aps :
            /\ Val(ret).aps[i].floor = C23Label
            /\ C23OverrideFloor # << >> => Val(ret).aps[i].floor = C23OverrideFloor
            /\ Val(ret).recs[i]["floor"] = Some(C23Label)

\* an AP with a floor field and an override: the override is the label
C23_Witness ==
    /\ call.fn = "load_aps"
    /\ ret # None
    /\ Cardinality(C23Matching) = 1
    /\ C23OverrideFloor = << "8" >>
    /\ strip(OrEmpty(call.a.floor)) = << "2" >>
    /\ Len(Val(ret).aps) = 1
    /\ Val(ret).aps[1].floor = << "8" >>

\* ---------------------------------------------------------------------------
\* C24  The confidence score of every record is an integer in 0..100; with
\* the other fields fixed it does not decrease when the RSSI moves to a
\* higher band (absent, below 25, 25-34, 35-44, 45 and more) and does not
\* decrease when the idle time decreases.
\* ---------------------------------------------------------------------------
C24Band(rssi) ==
    IF rssi = None THEN 0
    ELSE IF Val(rssi) < 25 THEN 1
    ELSE IF Val(rssi) < 35 THEN 2
    ELSE IF Val(rssi) < 45 THEN 3
    ELSE 4

C24Scored == call.fn = "presence_confidence_for_record" /\ ret # None

C24_ConfidenceBounded ==
    C24Scored =>
        /\ Val(ret) \in 0..100
        /\ \A r \in ScoreRssis :
              C24Band(r) > C24Band(call.rec.rssi) =>
                presence_confidence_for_record([call.rec EXCEPT !.rssi = r]) >= Val(ret)
        /\ \A i \in ScoreIdles :
              (i # None /\ call.rec.idle_s # None /\ Val(i) < Val(call.rec.idle_s)) =>
                presence_confidence_for_record([call.rec EXCEPT !.idle_s = i]) >= Val(ret)

\* a record whose only scoring field is an SSID with "cam" in it: the sum is
\* -5 and the score 0, and a record that gains from a stronger RSSI and from
\* a shorter idle time
C24_Witness ==
    /\ C24Scored
    /\ call.rec = ScoreRecord(None, Some(301), None, None, Some(<< "C", "a", "m", "1" >>))
    /\ Val(ret) = 0
    /\ presence_confidence_for_record([call.rec EXCEPT !.rssi = Some(45)]) = 40
    /\ presence_confidence_for_record([call.rec EXCEPT !.idle_s = Some(60)]) = 25

\* ---------------------------------------------------------------------------
\* C25  The association-table parser takes as header the first line that
\* begins with ADDR in any letter case (as stated: whose first token equals
\* ADDR); without such a line, or with it as the last line, the result is
\* empty; otherwise the result holds, under its MAC in small letters, every
\* row after the header whose first token is a valid MAC, the last such row
\* of a MAC that occurs twice, and a row with a malformed MAC is skipped
\* without any effect on the others.
\* ---------------------------------------------------------------------------
C25Parsed == call.fn = "parse_wlanconfig_list" /\ ret # None

C25Lines == SelectSeq(call.output, LAMBDA ln : ln # << >>)

C25BeginsWithAddr(ln) ==
    Len(ln[1]) >= 4 /\ UpperText(SubSeq(ln[1], 1, 4)) = << "A", "D", "D", "R" >>

C25TokenIsAddr(ln) == UpperText(ln[1]) = << "A", "D", "D", "R" >>

\* the lines after the first line that is a header by the test is_header
C25RowsAfter(is_header(_)) ==
    IF \E i \in DOMAIN C25Lines : is_header(C25Lines[i])
    THEN LET h == CHOOSE i \in DOMAIN C25Lines :
                    is_header(C25Lines[i]) /\ \A j \in 1..(i - 1) : ~is_header(C25Lines[j])
         IN  SubSeq(C25Lines, h + 1, Len(C25Lines))
    ELSE << >>

C25ValidRows(rows) == {i \in DOMAIN rows : MAC_RE_text(rows[i][1])}

\* the keys of the result are the MACs of the valid rows of rows, each record
\* carrying its key as its mac
C25Holds(rows) ==
    /\ DOMAIN Val(ret) = {LowerText(rows[i][1]) : i \in C25ValidRows(rows)}
    /\ \A k \in DOMAIN Val(ret) : Val(ret)[k]["mac"] = Some(k)

\* the output without the malformed rows that follow the header
C25WithoutMalformed ==
    LET rows == C25RowsAfter(C25BeginsWithAddr)
    IN  SubSeq(C25Lines, 1, Len(C25Lines) - Len(rows))
        \o SelectSeq(rows, LAMBDA ln : MAC_RE_text(ln[1]))

C25_Parser ==
    C25Parsed =>
        /\ C25Holds(C25RowsAfter(C25BeginsWithAddr))
        /\ Val(ret) = parse_wlanconfig_list(C25WithoutMalformed)

\* a header, a row with a MAC cut short and a row with a MAC in capitals: the
\* result is the last row alone, under the MAC in small letters
C25_Witness ==
    /\ C25Parsed
    /\ Len(C25Lines) = 3
    /\ C25TokenIsAddr(C25Lines[1])
    /\ C25Lines[2][1] = MacTextCut
    /\ C25Lines[3][1] = MacTextPhoneCapitals
    /\ DOMAIN Val(ret) = {MacTextPhone}
    /\ Val(ret)[MacTextPhone]["mac"] = Some(MacTextPhone)

\* C25 as stated, the header being the first line whose first token equals
\* ADDR: violated by an output whose first line begins with ADDRESS, whose
\* rows are parsed
C25_AsStated ==
    C25Parsed => C25Holds(C25RowsAfter(C25TokenIsAddr))

\* ---------------------------------------------------------------------------
\* C26  The record the global merged map keeps for a MAC after the two-level
\* reduction (best over the interfaces of each AP, then best over the APs)
\* is the result of one left-to-right best reduction over all records of
\* that MAC in the order they are met: it has the highest RSSI (a record
\* with an RSSI beating one without), among those the lowest idle time, and
\* among full ties it is the first one met.
\* ---------------------------------------------------------------------------
C26Merged == call.fn = "merge" /\ ret # None

\* the records of the station in the order they are met
RECURSIVE C26Records(_)
C26Records(i) ==
    IF i > Len(call.aps) THEN << >>
    ELSE [k \in DOMAIN call.polls[i].rows |->
            rec2_extended(rec2_of(call.aps[i], call.polls[i].rows[k], EmptyDict),
                          call.polls[i].rows[k], EmptyDict)]
         \o C26Records(i + 1)

RECURSIVE C26Reduce(_, _)
C26Reduce(recs, acc) ==
    IF recs = << >> THEN acc
    ELSE C26Reduce(Tail(recs), best_record(acc, Head(recs)))

\* a beats or ties b: by RSSI first, by idle time second
C26AtLeast(a, b) ==
    LET ar == Get(a, "rssi")
        br == Get(b, "rssi")
        ai == Get(a, "idle_s")
        bi == Get(b, "idle_s")
    IN  IF ar # br THEN ar # None /\ (br = None \/ Val(ar) > Val(br))
        ELSE IF ai # bi THEN ai # None /\ (bi = None \/ Val(ai) < Val(bi))
        ELSE TRUE

C26_TwoLevelReduction ==
    C26Merged =>
        LET recs == C26Records(1)
        IN  IF recs = << >> THEN MacPhone \notin DOMAIN Val(ret)
            ELSE /\ MacPhone \in DOMAIN Val(ret)
                 /\ Val(ret)[MacPhone] = C26Reduce(Tail(recs), Head(recs))
                 /\ \E k \in DOMAIN recs :
                      /\ Val(ret)[MacPhone] = recs[k]
                      /\ \A j \in DOMAIN recs : C26AtLeast(recs[k], recs[j])
                      /\ \A j \in 1..(k - 1) : ~C26AtLeast(recs[j], recs[k])

\* four records, the best RSSI and idle time on the second interface of the
\* first AP and again on the first interface of the second AP: the record
\* of the first AP is kept
C26_Witness ==
    /\ C26Merged
    /\ Len(C26Records(1)) = 4
    /\ Get(C26Records(1)[1], "rssi") = Some(30)
    /\ Get(C26Records(1)[2], "rssi") = Some(40) /\ Get(C26Records(1)[2], "idle_s") = Some(5)
    /\ Get(C26Records(1)[3], "rssi") = Some(40) /\ Get(C26Records(1)[3], "idle_s") = Some(5)
    /\ Val(ret)[MacPhone] = C26Records(1)[2]
    /\ Val(ret)[MacPhone]["ap_name"] = Some("ap_a")
    /\ Val(ret)[MacPhone]["iface"] = Some(WIFI1AP0)

\* ---------------------------------------------------------------------------
\* C28  The interface list of an AP host is fetched in a cycle exactly when
\* the host has no cached list or the cycle number c has c mod 40 = 1; a
\* fetch that answers replaces the cached list, a fetch that fails leaves
\* the cache as it was, and in every other cycle the cached list is the one
\* whose interfaces are asked for their stations.
\* ---------------------------------------------------------------------------
\* the interface the station is sighted on when the interfaces of list are
\* asked: the second one, where it is stronger, if that is in the list
C28SightedOn(list) ==
    IF \E i \in DOMAIN list : list[i] = WIFI1AP0 THEN WIFI1AP0 ELSE WIFI0AP0

C28Step ==
    cycle' = cycle + 1 =>
        \A k \in DOMAIN polled' :
            LET host == aps[k].host
                e == polled'[k]
                cached == host \in DOMAIN iface_cache
            IN  /\ e.iface_fetch # "none" <=> (~cached \/ cycle' % 40 = 1)
                /\ e.iface_fetch = "fetched" =>
                      /\ host \in DOMAIN iface_cache'
                      /\ iface_cache'[host] = e.out.ifaces.list
                /\ e.iface_fetch # "fetched" => iface_cache' = iface_cache
                /\ (e.iface_fetch # "raised" /\ e.ssid_fetch # "raised") =>
                      /\ MacPhone \in DOMAIN seen_global_tracked'
                      /\ seen_global_tracked'[MacPhone]["iface"]
                            = Some(C28SightedOn(iface_cache'[host]))
                /\ (e.iface_fetch = "raised" \/ e.ssid_fetch = "raised") =>
                      MacPhone \notin DOMAIN seen_global_tracked'

C28_IfaceCache == [][C28Step]_vars

\* cycle 41 with a list cached: the fetch is made and fails, the list stays
C28_Witness ==
    /\ cycle = 41
    /\ polled[1].iface_fetch = "raised"
    /\ "h1" \in DOMAIN iface_cache
    /\ iface_cache["h1"] = << WIFI0AP0 >>

\* ---------------------------------------------------------------------------
\* C29  In extended mode the SSID map of an AP host is fetched in a cycle
\* exactly when the pass of the AP gets past the interface list and the host
\* has no cached map or 20 cycles or more have gone by since the cycle
\* recorded for the host; a fetch that answers, or fails with a non-zero rc
\* (then with an empty map), is cached and recorded under the cycle, so the
\* recorded cycles of a host are 20 or more apart; a fetch that raises caches
\* and records nothing.  Outside extended mode no map is fetched and no
\* record carries an SSID.
\* ---------------------------------------------------------------------------
C29Cached(host) == host \in DOMAIN ssid_cache

C29Due(host) ==
    \/ ~C29Cached(host)
    \/ cycle' - (IF host \in DOMAIN ssid_cache_cycle THEN ssid_cache_cycle[host] ELSE 0)
          >= 20

\* the SSID of the interface the station is sighted on, by the cached map
C29Ssid(host, iface) ==
    IF host \in DOMAIN ssid_cache' /\ iface \in DOMAIN ssid_cache'[host]
       /\ ssid_cache'[host][iface] # << >>
    THEN Some(ssid_cache'[host][iface]) ELSE None

C29Step ==
    cycle' = cycle + 1 =>
        \A k \in DOMAIN polled' :
            LET host == aps[k].host
                e == polled'[k]
            IN  /\ e.ssid_fetch # "none"
                      <=> (extended_mode /\ e.iface_fetch # "raised" /\ C29Due(host))
                /\ e.ssid_fetch = "fetched" =>
                      /\ host \in DOMAIN ssid_cache'
                      /\ ssid_cache'[host] = IF e.out.ssids.kind = "ok"
                                             THEN e.out.ssids.map ELSE EmptyDict
                      /\ ssid_cache_cycle'[host] = cycle'
                      /\ host \in DOMAIN ssid_cache_cycle =>
                            cycle' - ssid_cache_cycle[host] >= 20
                /\ e.ssid_fetch # "fetched" =>
                      /\ ssid_cache' = ssid_cache
                      /\ ssid_cache_cycle' = ssid_cache_cycle
                /\ \A m \in DOMAIN seen_global_tracked' :
                      Get(seen_global_tracked'[m], "ssid")
                        = IF extended_mode
                          THEN C29Ssid(host, Val(seen_global_tracked'[m]["iface"]))
                          ELSE None
                /\ ~extended_mode => ssid_cache' = EmptyDict

C29_SsidCache == [][C29Step]_vars

\* the first pass over the AP raised before the map was cached, the fetch of
\* cycle 2 was cached, and the next fetch is the one of cycle 22: it fails
\* with a non-zero rc and an empty map is cached
C29_Witness ==
    /\ extended_mode
    /\ cycle = 22
    /\ polled[1].ssid_fetch = "fetched"
    /\ polled[1].out.ssids.kind = "rc_fail"
    /\ ssid_cache["h1"] = EmptyDict
    /\ ssid_cache_cycle["h1"] = 22

\* C29 as stated: the fetch is made exactly when the host has no cached map
\* or 20 cycles have gone by, and a fetch that failed caches an empty map
\* for the period.  Violated in a cycle whose interface detection fails (no
\* fetch, though none is cached) and by a fetch that raises (nothing
\* cached, fetched again in the next cycle).
C29StepAsStated ==
    (cycle' = cycle + 1 /\ extended_mode) =>
        \A k \in DOMAIN polled' :
            LET host == aps[k].host
                e == polled'[k]
            IN  /\ e.ssid_fetch # "none" <=> C29Due(host)
                /\ (e.ssid_fetch # "none" /\ e.out.ssids.kind # "ok") =>
                      /\ host \in DOMAIN ssid_cache'
                      /\ ssid_cache'[host] = EmptyDict
                      /\ ssid_cache_cycle'[host] = cycle'

C29_AsStated == [][C29StepAsStated]_vars

\* ---------------------------------------------------------------------------
\* C30  In the Trakt bridge the decision to report a stop as watched is taken
\* from the attributes of the old_state of the triggering message alone:
\* whatever was received before, a playing-to-not-playing message leads, with
\* the same sent keys and tokens, to the same decision to submit or skip and
\* to the same request body as in a bridge that has received nothing before,
\* and a request is made only when the old_state's own duration, position
\* and picture make the stop a watched one.
\* ---------------------------------------------------------------------------
C30Stop ==
    /\ stopped # None
    /\ Val(stopped).msg.type = "event"
    /\ Val(stopped).msg.entity_id \in ENTITIES
    /\ Val(stopped).msg.old_state = Some("playing")
    /\ Val(stopped).msg.new_state \notin { None, Some("playing") }

C30_OldStateOnly ==
    stopped # None =>
        /\ Val(stopped).request = Val(stopped).fresh
        /\ Val(stopped).request # None =>
              /\ C30Stop
              /\ Val(Val(stopped).msg.old_attrs.media_duration) >= 600
              /\ 100 * Val(Val(stopped).msg.old_attrs.media_position)
                    >= 85 * Val(Val(stopped).msg.old_attrs.media_duration)
              /\ Val(stopped).msg.old_attrs.entity_picture # None

\* a message left the player playing at position 1100 of 1200, the stop that
\* follows carries position 100: nothing is submitted
C30_Witness ==
    /\ C30Stop
    /\ Val(stopped).earlier = Some(FilmDone)
    /\ Val(stopped).msg = Stop(FilmEarly)
    /\ tokens_file # None
    /\ Val(stopped).sent = None
    /\ Val(stopped).request = None
    /\ Val(stopped).outcome = "unwatched"

\* ---------------------------------------------------------------------------
\* C31: in the Trakt bridge, over any sequence of stop events each key (the
\* IMDb id of a movie, the IMDb id plus SxxEyy of an episode) is submitted
\* successfully to Trakt at most once: a key is recorded in the sent set only
\* after a successful submission, a stop event whose key is already recorded
\* submits nothing, and a failed submission records nothing so that a later
\* stop event for the same key submits again.
\*
\* The key is recorded by save_json after the POST has been answered, outside
\* the try around the POST: when save_json raises, or the process ends before
\* it has written, Trakt has the play and the file has not the key, and the
\* bridge that is started again submits the same key once more.
\* ---------------------------------------------------------------------------
C31_AtMostOnce ==
    \A key \in DOMAIN posted : posted[key] <= 1

\* what does hold: every recorded key has been accepted by Trakt, and a stop
\* whose key the file read holds, or that Trakt refused, leaves the file alone
C31_RecordedWereAccepted ==
    (sent_file # None /\ Val(sent_file).complete) =>
        DOMAIN Val(sent_file).doc \subseteq DOMAIN posted

C31_SkippedLeavesFile ==
    (stopped # None /\ Val(stopped).outcome \in { "already_sent", "failed" }) =>
        /\ sent_file = Val(stopped).sent
        /\ Val(stopped).outcome = "already_sent" => Val(stopped).request = None

\* a film accepted twice: the first save did not write the file
C31_Twice ==
    /\ \E key \in DOMAIN posted : posted[key] = 2
    /\ restarts >= 1

\* ---------------------------------------------------------------------------
\* C32: a device's last recorded AP and floor survive unobserved cycles and
\* Away periods unchanged, and the roam and floor-change tests compare the
\* current AP and floor with those of the device's most recent observation,
\* however many cycles ago: a device that is next observed on another AP than
\* the one of its last observation, after a debounce gap or after having been
\* published not_home, has its roam_count incremented by 1 on that cycle, and
\* its prev_floor and last_floor_change updated if the floor differs.
\* ---------------------------------------------------------------------------
\* the recorded AP and floor are those of the most recent observation
C32Recorded ==
    \A m \in TrackedMacs :
        IF last_obs[m] = None
        THEN prev_ap[m] = None /\ prev_floor[m] = None
        ELSE /\ prev_ap[m] = Val(last_obs[m])["ap_name"]
             /\ prev_floor[m] = Val(last_obs[m])["floor"]

C32Step ==
    \A m \in TrackedMacs :
        IF m \notin DOMAIN seen_global_tracked'
        THEN /\ prev_ap'[m] = prev_ap[m]
             /\ prev_floor'[m] = prev_floor[m]
             /\ roam_count'[m] = roam_count[m]
             /\ prev_floor_attr'[m] = prev_floor_attr[m]
             /\ last_floor_change'[m] = last_floor_change[m]
        ELSE (last_obs[m] # None /\ unseen_run[m] >= 1) =>
                LET seen == Val(last_obs[m])
                    pub == Val(mqtt_attrs'[m])
                IN  /\ roam_count'[m] =
                          IF Get(pub, "ap_name") # seen["ap_name"]
                          THEN roam_count[m] + 1 ELSE roam_count[m]
                    /\ Get(pub, "roam_count") = Some(roam_count'[m])
                    /\ IF Get(pub, "floor") # seen["floor"]
                       THEN /\ prev_floor_attr'[m] = seen["floor"]
                            /\ last_floor_change'[m] = Get(pub, "last_seen_iso")
                            /\ Get(pub, "prev_floor") = seen["floor"]
                            /\ Get(pub, "last_floor_change") = Get(pub, "last_seen_iso")
                       ELSE /\ prev_floor_attr'[m] = prev_floor_attr[m]
                            /\ last_floor_change'[m] = last_floor_change[m]

C32_LastObservationKept == [][C32Step]_vars /\ []C32Recorded

\* seen on ap_a on floor a, published not_home for two cycles, then seen on
\* ap_b on floor b: one roam, and the floor left is named
C32_Witness ==
    /\ Observed(MacPhone)
    /\ gap[MacPhone] > away_after
    /\ roam_count[MacPhone] = 1
    /\ Attr(MacPhone, "ap_name") = Some("ap_b")
    /\ Attr(MacPhone, "floor") = Some("b")
    /\ Attr(MacPhone, "prev_floor") = Some("a")
    /\ Attr(MacPhone, "last_floor_change") = Attr(MacPhone, "last_seen_iso")
    /\ notice[MacPhone].kind = "home"

\* ---------------------------------------------------------------------------
\* C33: the learning store's dirty flag is false at the end of every poll
\* cycle: it is set and cleared within the same cycle, and it is cleared after
\* every flush attempt whether the write succeeded or failed, so after a
\* failed write no further write is attempted until a later cycle adds a new
\* MAC, gives an entry its first IPv4, or changes the entry count by trimming.
\* ---------------------------------------------------------------------------
\* a cycle has ended when the process is still running after it
C33State == running => ~learn_dirty

C33Step ==
    /\ flush' \in {"ok"} \cup SaveRaises => (running' /\ ~learn_dirty')
    /\ C20FailedBefore =>
        /\ flush' # "none" <=> (C18AddedNew \/ C18GaveIp \/ C18TrimChanged)
        /\ flush' = "none" => (C18FilesKept /\ save_log' = save_log)

C33_DirtyClearedEveryCycle == [][C33Step]_vars /\ []C33State

\* the only write so far failed; this cycle saw the same guest again, marked
\* nothing and wrote nothing: the store in memory is not in any file
C33_Witness ==
    /\ learn_mode
    /\ running
    /\ ~learn_dirty
    /\ Len(save_log) = 1
    /\ save_log[1] \in SaveRaises
    /\ flush = "none"
    /\ upserts # << >>
    /\ seen_unknown # << >>
    /\ store_file = None
====
